---- MODULE Spec2Model ----
(***************************************************************************)
(* Model of the BenzeneOS battery HAL service (rust/src/service.rs,        *)
(* rust/src/sysfs.rs).  The backing store is a set of text attributes,     *)
(* each absent or present with a text; the service keeps one cached pair   *)
(* of charge limits.  Texts are sequences of one-character strings so that *)
(* integer formatting (to_string) and parsing (trim + parse::<i32>) are    *)
(* modelled by what they do.                                               *)
(***************************************************************************)
EXTENDS Integers, Sequences, FiniteSets, TLC

VARIABLES
    fs,         \* the backing store: location -> [present, text]
    limits,     \* BatteryService.limits, the cached <<stop, start>>
    accepted,   \* history: arguments of the last setChargeLimit that passed validation
    last,       \* the call that has just returned: operation, arguments, outcome, writes
    prev,       \* history: the call before it, when it applied a pair successfully
    mutex,      \* the Mutex around limits: the thread holding it, 0 when free
    calls,      \* per binder thread: the call in progress, its position and locals
    validated   \* history: the pairs on which a setChargeLimit passed validation

vars == <<fs, limits, accepted, last, prev, mutex, calls, validated>>

\* the state of the thread pool, untouched while calls run one at a time
pool == <<mutex, calls, validated>>

\* ------------------------------------------------------------------------
\* 32-bit integers, formatting and parsing
\* ------------------------------------------------------------------------
MaxI32 == 2147483647
MinI32 == (-2147483647) - 1

Min(a, b) == IF a <= b THEN a ELSE b

\* a - b does not fit in an i32 (computed without leaving the i32 range)
SubOverflows(a, b) ==
    \/ b < 0 /\ a > MaxI32 + b
    \/ b > 0 /\ a < MinI32 + b

\* a - b modulo 2^32, in two's complement
WrappingSub(a, b) ==
    IF ~SubOverflows(a, b) THEN a - b
    ELSE IF b < 0 THEN ((a - MaxI32) - 1) + ((-(b + 1)) - MaxI32)
    ELSE ((a + MaxI32) + 1) + (MaxI32 - (b - 1))

DigitChars == <<"0", "1", "2", "3", "4", "5", "6", "7", "8", "9">>
IsDigit(c) == \E i \in 1..10 : DigitChars[i] = c
DigitVal(c) == (CHOOSE i \in 1..10 : DigitChars[i] = c) - 1
IsWhitespace(c) == c \in {" ", "\n", "\t", "\r"}

RECURSIVE NatToString(_)
NatToString(n) ==
    IF n < 10 THEN <<DigitChars[n + 1]>>
    ELSE Append(NatToString(n \div 10), DigitChars[(n % 10) + 1])

\* i32::to_string
to_string(n) ==
    IF n >= 0 THEN NatToString(n)
    ELSE IF n = MinI32 THEN <<"-">> \o Append(NatToString(214748364), "8")
    ELSE <<"-">> \o NatToString(-n)

RECURSIVE TrimStart(_)
TrimStart(s) ==
    IF s # <<>> /\ IsWhitespace(Head(s)) THEN TrimStart(Tail(s)) ELSE s

RECURSIVE TrimEnd(_)
TrimEnd(s) ==
    IF s # <<>> /\ IsWhitespace(s[Len(s)])
    THEN TrimEnd(SubSeq(s, 1, Len(s) - 1)) ELSE s

\* str::trim
trim(s) == TrimEnd(TrimStart(s))

ParseErr == [ok |-> FALSE, v |-> 0]

\* accumulate decimal digits towards +infinity, failing on i32 overflow
RECURSIVE ParsePos(_, _)
ParsePos(s, acc) ==
    IF s = <<>> THEN [ok |-> TRUE, v |-> acc]
    ELSE IF ~IsDigit(Head(s)) THEN ParseErr
    ELSE LET d == DigitVal(Head(s)) IN
         IF acc > (MaxI32 - d) \div 10 THEN ParseErr
         ELSE ParsePos(Tail(s), acc * 10 + d)

\* accumulate decimal digits towards -infinity, failing on i32 overflow
RECURSIVE ParseNeg(_, _)
ParseNeg(s, acc) ==
    IF s = <<>> THEN [ok |-> TRUE, v |-> acc]
    ELSE IF ~IsDigit(Head(s)) THEN ParseErr
    ELSE LET d == DigitVal(Head(s)) IN
         IF acc < ((MinI32 + d) + 9) \div 10 THEN ParseErr
         ELSE ParseNeg(Tail(s), acc * 10 - d)

\* str::parse::<i32>: optional sign, then one or more ASCII digits
parse_i32(s) ==
    IF s = <<>> THEN ParseErr
    ELSE IF Head(s) = "-" THEN
        (IF Tail(s) = <<>> THEN ParseErr ELSE ParseNeg(Tail(s), 0))
    ELSE IF Head(s) = "+" THEN
        (IF Tail(s) = <<>> THEN ParseErr ELSE ParsePos(Tail(s), 0))
    ELSE ParsePos(s, 0)

\* ------------------------------------------------------------------------
\* The backing store (sysfs.rs)
\* ------------------------------------------------------------------------
NoLoc == "none"

P_CHARGING_POLICY == "/sys/class/power_supply/battery/charging_policy"
P_CHARGE_STOP_LEVEL == "/sys/devices/platform/google,charger/charge_stop_level"
P_CHARGE_START_LEVEL == "/sys/devices/platform/google,charger/charge_start_level"

CHARGING_POLICY == [primary |-> P_CHARGING_POLICY, alternate |-> NoLoc]
CHARGE_STOP_LEVEL == [primary |-> P_CHARGE_STOP_LEVEL, alternate |-> NoLoc]
CHARGE_START_LEVEL == [primary |-> P_CHARGE_START_LEVEL, alternate |-> NoLoc]

P_BD_CLEAR == "/sys/devices/platform/google,charger/bd_clear"
P_BD_CLEAR_ALT == "/sys/devices/platform/soc/soc:google,charger/bd_clear"
P_BD_TRICKLE_RESET_SEC == "/sys/class/power_supply/battery/bd_trickle_reset_sec"
P_BD_TRICKLE_RATE == "/sys/class/power_supply/battery/bd_trickle_rate"
P_DD_STATE == "/sys/devices/platform/google,charger/dd_state"
P_DD_SETTINGS == "/sys/devices/platform/google,charger/dd_settings"
P_HEALTH_SET_CAL_MODE == "/sys/class/power_supply/battery/health_set_cal_mode"

BD_CLEAR == [primary |-> P_BD_CLEAR, alternate |-> P_BD_CLEAR_ALT]
BD_TRICKLE_RESET_SEC == [primary |-> P_BD_TRICKLE_RESET_SEC, alternate |-> NoLoc]
BD_TRICKLE_RATE == [primary |-> P_BD_TRICKLE_RATE, alternate |-> NoLoc]
DD_STATE == [primary |-> P_DD_STATE, alternate |-> NoLoc]
DD_SETTINGS == [primary |-> P_DD_SETTINGS, alternate |-> NoLoc]
HEALTH_SET_CAL_MODE == [primary |-> P_HEALTH_SET_CAL_MODE, alternate |-> NoLoc]

\* locations of the property table (get_property_sysfs) that the device exposes
P_CHARGE_DEADLINE_DRYRUN == "/sys/class/power_supply/battery/charge_deadline_dryrun"
P_BD_TRICKLE_CNT_THR == "/sys/class/power_supply/battery/bd_trickle_cnt_thr"

P_CHARGING_STATUS == "/sys/devices/platform/google,charger/charging_status"
P_CHARGING_STATUS_ALT == "/sys/devices/platform/soc/soc:google,charger/charging_status"
CHARGING_STATUS == [primary |-> P_CHARGING_STATUS, alternate |-> P_CHARGING_STATUS_ALT]

P_HEALTH_INDEX_STATS == "/sys/class/power_supply/battery/health_index_stats"
HEALTH_INDEX_STATS == [primary |-> P_HEALTH_INDEX_STATS, alternate |-> NoLoc]

ChargeLocations == {P_CHARGING_POLICY, P_CHARGE_STOP_LEVEL, P_CHARGE_START_LEVEL}

DefendLocations ==
    {P_BD_CLEAR, P_BD_CLEAR_ALT, P_BD_TRICKLE_RESET_SEC, P_BD_TRICKLE_RATE,
     P_DD_STATE, P_DD_SETTINGS, P_HEALTH_SET_CAL_MODE}

PropLocations ==
    {P_CHARGE_DEADLINE_DRYRUN, P_BD_TRICKLE_RESET_SEC, P_BD_TRICKLE_CNT_THR}

\* the attributes declared with an alternate location
ResolveLocations ==
    {P_BD_CLEAR, P_BD_CLEAR_ALT, P_CHARGING_STATUS, P_CHARGING_STATUS_ALT}

Locations ==
    ChargeLocations \cup DefendLocations \cup PropLocations \cup {P_HEALTH_INDEX_STATS}
        \cup ResolveLocations

AbsentFile == [present |-> FALSE, text |-> <<>>]
File(t) == [present |-> TRUE, text |-> t]

\* Path::exists
PathExists(f, p) == p \in DOMAIN f /\ f[p].present

resolve_alternate_first(f, ref) ==
    IF ref.alternate # NoLoc /\ PathExists(f, ref.alternate) THEN ref.alternate
    ELSE IF PathExists(f, ref.primary) THEN ref.primary
    ELSE NoLoc

\* SysfsPath::resolve
resolve(f, ref) ==
    IF PathExists(f, ref.primary) THEN ref.primary
    ELSE IF ref.alternate # NoLoc /\ PathExists(f, ref.alternate) THEN ref.alternate
    ELSE NoLoc

\* SysfsPath::exists
exists(f, ref) == resolve(f, ref) # NoLoc

\* sysfs::read_string on a location
read_string(f, p) ==
    IF PathExists(f, p) THEN [err |-> "none", s |-> trim(f[p].text)]
    ELSE [err |-> "NotFound", s |-> <<>>]

\* sysfs::read_int on a location
read_int(f, p) ==
    LET content == read_string(f, p) IN
    IF content.err # "none" THEN [err |-> content.err, v |-> 0]
    ELSE LET r == parse_i32(content.s) IN
         IF r.ok THEN [err |-> "none", v |-> r.v] ELSE [err |-> "Parse", v |-> 0]

\* SysfsPath::read_string
SysfsPath_read_string(f, ref) ==
    LET p == resolve(f, ref) IN
    IF p = NoLoc THEN [err |-> "NotFound", s |-> <<>>] ELSE read_string(f, p)

\* SysfsPath::read_int
SysfsPath_read_int(f, ref) ==
    LET p == resolve(f, ref) IN
    IF p = NoLoc THEN [err |-> "NotFound", v |-> 0] ELSE read_int(f, p)

\* SysfsPath::read_int_or
read_int_or(f, ref, default) ==
    LET r == SysfsPath_read_int(f, ref) IN
    IF r.err = "none" THEN r.v ELSE default

\* A handler runs as a sequence of steps over a context
\*   [fs, log, err]: the store, the write system calls issued so far (in
\*   order, with their outcome) and the first error met ("none" while running).
\* failAt is the environment's choice of the write system call (counted from 1
\* within the handler) that the store rejects with an I/O error; 0 rejects none.
Ctx(f) == [fs |-> f, log |-> <<>>, err |-> "none"]

\* a write whose I/O error is dropped instead of returned
write_string_error_dropped(c, p, value, failAt) ==
    IF c.err # "none" THEN c
    ELSE IF ~PathExists(c.fs, p) THEN
        [c EXCEPT !.log = Append(@, [loc |-> p, text |-> value, ok |-> FALSE]),
                  !.err = "NotFound"]
    ELSE IF Len(c.log) + 1 = failAt THEN
        [c EXCEPT !.log = Append(@, [loc |-> p, text |-> value, ok |-> FALSE])]
    ELSE
        [c EXCEPT !.fs[p] = File(value),
                  !.log = Append(@, [loc |-> p, text |-> value, ok |-> TRUE])]

\* sysfs::write_string on a location
write_string(c, p, value, failAt) ==
    IF c.err # "none" THEN c
    ELSE IF ~PathExists(c.fs, p) THEN
        [c EXCEPT !.log = Append(@, [loc |-> p, text |-> value, ok |-> FALSE]),
                  !.err = "NotFound"]
    ELSE IF Len(c.log) + 1 = failAt THEN
        [c EXCEPT !.log = Append(@, [loc |-> p, text |-> value, ok |-> FALSE]),
                  !.err = "Io"]
    ELSE
        [c EXCEPT !.fs[p] = File(value),
                  !.log = Append(@, [loc |-> p, text |-> value, ok |-> TRUE])]

\* SysfsPath::write_string
SysfsPath_write_string(c, ref, value, failAt) ==
    IF c.err # "none" THEN c
    ELSE LET p == resolve(c.fs, ref) IN
         IF p = NoLoc THEN [c EXCEPT !.err = "NotFound"]
         ELSE write_string(c, p, value, failAt)

\* SysfsPath::write_int
write_int(c, ref, value, failAt) ==
    SysfsPath_write_string(c, ref, to_string(value), failAt)

\* ------------------------------------------------------------------------
\* The service (service.rs)
\* ------------------------------------------------------------------------
DEFAULT_STOP == 80
DEFAULT_START == 70

\* BatteryService::new
new == <<DEFAULT_STOP, DEFAULT_START>>

\* sysfs_err / bad_arg / unsupported: the caller-facing outcome kinds
Outcome(c) == IF c.err = "none" THEN "Ok" ELSE "BackendFailure"

\* apply_levels, first step: lower start first if new_stop <= current_start
write_prep_start(c, stop, start, current_start, failAt) ==
    IF stop <= current_start /\ start # current_start
       /\ Min(start, stop - 1) # current_start /\ exists(c.fs, CHARGE_START_LEVEL)
    THEN write_int(c, CHARGE_START_LEVEL, Min(start, stop - 1), failAt)
    ELSE c

\* apply_levels, second step, without the existence test of its target
write_stop_unguarded(c, stop, current_stop, failAt) ==
    IF c.err = "none" /\ stop # current_stop
    THEN write_int(c, CHARGE_STOP_LEVEL, stop, failAt)
    ELSE c

\* apply_levels, second step: the stop write
write_stop(c, stop, current_stop, failAt) ==
    IF c.err = "none" /\ stop # current_stop /\ exists(c.fs, CHARGE_STOP_LEVEL)
    THEN write_int(c, CHARGE_STOP_LEVEL, stop, failAt)
    ELSE c

\* apply_levels, second step, issued although the stop is unchanged
write_stop_always(c, stop, current_stop, failAt) ==
    IF c.err = "none" /\ exists(c.fs, CHARGE_STOP_LEVEL)
    THEN write_int(c, CHARGE_STOP_LEVEL, stop, failAt)
    ELSE c

\* apply_levels, last step: the start write, unless the first step set it
write_start(c, stop, start, current_start, failAt) ==
    IF c.err = "none"
       /\ ~(stop <= current_start /\ start # current_start /\ Min(start, stop - 1) = start)
       /\ start # current_start /\ exists(c.fs, CHARGE_START_LEVEL)
    THEN write_int(c, CHARGE_START_LEVEL, start, failAt)
    ELSE c

\* apply_levels, last step, without regard to the first step
write_start_unprepared(c, stop, start, current_start, failAt) ==
    IF c.err = "none" /\ start # current_start /\ exists(c.fs, CHARGE_START_LEVEL)
    THEN write_int(c, CHARGE_START_LEVEL, start, failAt)
    ELSE c

\* apply_levels with the stop write issued although the stop is unchanged
apply_levels_rewrite_stop(c, stop, start, failAt) ==
    LET current_start == read_int_or(c.fs, CHARGE_START_LEVEL, 0)
        current_stop == read_int_or(c.fs, CHARGE_STOP_LEVEL, 100)
    IN write_start(
           write_stop_always(
               write_prep_start(c, stop, start, current_start, failAt),
               stop, current_stop, failAt),
           stop, start, current_start, failAt)

\* apply_levels without the transitional start write: stop first, then start
apply_levels_stop_first(c, stop, start, failAt) ==
    LET current_start == read_int_or(c.fs, CHARGE_START_LEVEL, 0)
        current_stop == read_int_or(c.fs, CHARGE_STOP_LEVEL, 100)
    IN write_start_unprepared(
           write_stop(c, stop, current_stop, failAt),
           stop, start, current_start, failAt)

\* BatteryService::apply_levels, continuing the context c
apply_levels(c, stop, start, failAt) ==
    LET current_start == read_int_or(c.fs, CHARGE_START_LEVEL, 0)
        current_stop == read_int_or(c.fs, CHARGE_STOP_LEVEL, 100)
    IN write_start(
           write_stop(
               write_prep_start(c, stop, start, current_start, failAt),
               stop, current_stop, failAt),
           stop, start, current_start, failAt)

Policies == {"DEFAULT", "LONGLIFE", "CUSTOM", "ADAPTIVE", "UNKNOWN"}

\* the integer code setChargingPolicy writes; -1 for an unrecognized policy
PolicyCode(policy) ==
    CASE policy = "DEFAULT" -> 1
      [] policy \in {"LONGLIFE", "CUSTOM"} -> 2
      [] policy = "ADAPTIVE" -> 3
      [] OTHER -> -1

NoPair == <<>>

\* a handler's result: outcome kind, returned value, store and cache after
\* it, the writes it issued, and the pair it handed to apply_levels
Result(res, ret, c, lim, applied) ==
    [res |-> res, ret |-> ret, fs |-> c.fs, limits |-> lim, log |-> c.log,
     applied |-> applied]

\* setChargingPolicy re-applying the default pair instead of the cached one
setChargingPolicy_defaults(f, lim, policy, failAt) ==
    LET val == PolicyCode(policy) IN
    IF val = -1 THEN Result("InvalidArgument", <<>>, Ctx(f), lim, NoPair)
    ELSE IF ~exists(f, CHARGING_POLICY) THEN Result("Ok", <<>>, Ctx(f), lim, NoPair)
    ELSE LET c1 == write_int(Ctx(f), CHARGING_POLICY, val, failAt) IN
         IF c1.err # "none" THEN Result("BackendFailure", <<>>, c1, lim, NoPair)
         ELSE IF policy = "CUSTOM" THEN
             LET c2 == apply_levels(c1, DEFAULT_STOP, DEFAULT_START, failAt) IN
             Result(Outcome(c2), <<>>, c2, lim, <<DEFAULT_STOP, DEFAULT_START>>)
         ELSE Result("Ok", <<>>, c1, lim, NoPair)

\* IBattery::setChargingPolicy
setChargingPolicy(f, lim, policy, failAt) ==
    LET val == PolicyCode(policy) IN
    IF val = -1 THEN Result("InvalidArgument", <<>>, Ctx(f), lim, NoPair)
    ELSE IF ~exists(f, CHARGING_POLICY) THEN Result("Ok", <<>>, Ctx(f), lim, NoPair)
    ELSE LET c1 == write_int(Ctx(f), CHARGING_POLICY, val, failAt) IN
         IF c1.err # "none" THEN Result("BackendFailure", <<>>, c1, lim, NoPair)
         ELSE IF policy = "CUSTOM" THEN
             LET c2 == apply_levels(c1, lim[1], lim[2], failAt) IN
             Result(Outcome(c2), <<>>, c2, lim, lim)
         ELSE Result("Ok", <<>>, c1, lim, NoPair)

\* setChargeLimit accepting a gap of 4
setChargeLimit_gap4(f, lim, stop, start, failAt, overflow_checks) ==
    IF ~(50 <= stop /\ stop <= 100) THEN
        Result("InvalidArgument", <<>>, Ctx(f), lim, NoPair)
    ELSE IF SubOverflows(stop, start) /\ overflow_checks THEN
        Result("Panic", <<>>, Ctx(f), lim, NoPair)
    ELSE IF WrappingSub(stop, start) < 4 THEN
        Result("InvalidArgument", <<>>, Ctx(f), lim, NoPair)
    ELSE IF read_int_or(f, CHARGING_POLICY, 1) = 2 THEN
        LET c == apply_levels(Ctx(f), stop, start, failAt) IN
        Result(Outcome(c), <<>>, c, <<stop, start>>, <<stop, start>>)
    ELSE Result("Ok", <<>>, Ctx(f), <<stop, start>>, NoPair)

\* setChargeLimit applying the pair without updating the cache
setChargeLimit_no_cache(f, lim, stop, start, failAt, overflow_checks) ==
    IF ~(50 <= stop /\ stop <= 100) THEN
        Result("InvalidArgument", <<>>, Ctx(f), lim, NoPair)
    ELSE IF SubOverflows(stop, start) /\ overflow_checks THEN
        Result("Panic", <<>>, Ctx(f), lim, NoPair)
    ELSE IF WrappingSub(stop, start) < 5 THEN
        Result("InvalidArgument", <<>>, Ctx(f), lim, NoPair)
    ELSE IF read_int_or(f, CHARGING_POLICY, 1) = 2 THEN
        LET c == apply_levels(Ctx(f), stop, start, failAt) IN
        Result(Outcome(c), <<>>, c, lim, <<stop, start>>)
    ELSE Result("Ok", <<>>, Ctx(f), lim, NoPair)

\* setChargeLimit updating the cache only after the pair was applied
setChargeLimit_cache_last(f, lim, stop, start, failAt, overflow_checks) ==
    IF ~(50 <= stop /\ stop <= 100) THEN
        Result("InvalidArgument", <<>>, Ctx(f), lim, NoPair)
    ELSE IF SubOverflows(stop, start) /\ overflow_checks THEN
        Result("Panic", <<>>, Ctx(f), lim, NoPair)
    ELSE IF WrappingSub(stop, start) < 5 THEN
        Result("InvalidArgument", <<>>, Ctx(f), lim, NoPair)
    ELSE IF read_int_or(f, CHARGING_POLICY, 1) = 2 THEN
        LET c == apply_levels(Ctx(f), stop, start, failAt) IN
        Result(Outcome(c), <<>>, c,
               IF c.err = "none" THEN <<stop, start>> ELSE lim, <<stop, start>>)
    ELSE Result("Ok", <<>>, Ctx(f), <<stop, start>>, NoPair)

\* IBattery::setChargeLimit.  overflow_checks is the build's choice for the
\* i32 subtraction: panic on overflow, or wrap.
setChargeLimit(f, lim, stop, start, failAt, overflow_checks) ==
    IF ~(50 <= stop /\ stop <= 100) THEN
        Result("InvalidArgument", <<>>, Ctx(f), lim, NoPair)
    ELSE IF SubOverflows(stop, start) /\ overflow_checks THEN
        Result("Panic", <<>>, Ctx(f), lim, NoPair)
    ELSE IF WrappingSub(stop, start) < 5 THEN
        Result("InvalidArgument", <<>>, Ctx(f), lim, NoPair)
    ELSE IF read_int_or(f, CHARGING_POLICY, 1) = 2 THEN
        LET c == apply_levels(Ctx(f), stop, start, failAt) IN
        Result(Outcome(c), <<>>, c, <<stop, start>>, <<stop, start>>)
    ELSE Result("Ok", <<>>, Ctx(f), <<stop, start>>, NoPair)

\* getChargeLimit falling back to the default pair instead of the cache
getChargeLimit_defaults(f, lim) ==
    Result("Ok",
           <<read_int_or(f, CHARGE_STOP_LEVEL, DEFAULT_STOP),
             read_int_or(f, CHARGE_START_LEVEL, DEFAULT_START)>>,
           Ctx(f), lim, NoPair)

\* IBattery::getChargeLimit
getChargeLimit(f, lim) ==
    Result("Ok",
           <<read_int_or(f, CHARGE_STOP_LEVEL, lim[1]),
             read_int_or(f, CHARGE_START_LEVEL, lim[2])>>,
           Ctx(f), lim, NoPair)

Features == {"DOCK_DEFEND", "TRICKLE_DEFEND", "HEALTH"}

\* IBattery::setEnable writing whether or not the settings attribute exists
setEnable_unguarded(f, lim, feature, enabled, failAt) ==
    IF feature = "DOCK_DEFEND" THEN
        LET c == SysfsPath_write_string(Ctx(f), DD_SETTINGS,
                     IF enabled THEN <<"B", "2">> ELSE <<"1", "M">>, failAt)
        IN Result(Outcome(c), <<>>, c, lim, NoPair)
    ELSE Result("UnsupportedOperation", <<>>, Ctx(f), lim, NoPair)

\* IBattery::setEnable
setEnable(f, lim, feature, enabled, failAt) ==
    IF feature = "DOCK_DEFEND" /\ exists(f, DD_SETTINGS) THEN
        LET c == SysfsPath_write_string(Ctx(f), DD_SETTINGS,
                     IF enabled THEN <<"B", "2">> ELSE <<"1", "M">>, failAt)
        IN Result(Outcome(c), <<>>, c, lim, NoPair)
    ELSE Result("UnsupportedOperation", <<>>, Ctx(f), lim, NoPair)

DefenderTypes == {"ALL", "TEMP", "TRICKLE", "DWELL", "DOCK", "UNKNOWN"}

\* the four closures of clearBatteryDefenders, each continuing a context
clear_temp(c, failAt) == SysfsPath_write_string(c, BD_CLEAR, <<"B", "2">>, failAt)

clear_trickle(c, failAt) == write_int(c, BD_TRICKLE_RESET_SEC, 0, failAt)

clear_dwell(c, failAt) == write_int(c, BD_TRICKLE_RATE, 0, failAt)

clear_dock(c, failAt) ==
    IF c.err = "none" /\ read_int_or(c.fs, DD_STATE, 0) = 1 /\ exists(c.fs, DD_SETTINGS)
    THEN SysfsPath_write_string(c, DD_SETTINGS, <<"0", "2">>, failAt)
    ELSE c

\* clearBatteryDefenders running all four closures of ALL whatever fails
clearBatteryDefenders_no_abort(f, lim, kind, failAt) ==
    LET Go(c) == [c EXCEPT !.err = "none"]
        c0 == Ctx(f)
        t1 == clear_temp(c0, failAt)
        t2 == clear_trickle(Go(t1), failAt)
        t3 == clear_dwell(Go(t2), failAt)
        t4 == clear_dock(Go(t3), failAt)
        failed == \E t \in {t1, t2, t3, t4} : t.err # "none"
        c == CASE kind = "ALL" -> [t4 EXCEPT !.err = IF failed THEN "Io" ELSE "none"]
               [] kind = "TEMP" -> clear_temp(c0, failAt)
               [] kind = "TRICKLE" -> clear_trickle(c0, failAt)
               [] kind = "DWELL" -> clear_dwell(c0, failAt)
               [] kind = "DOCK" -> clear_dock(c0, failAt)
               [] OTHER -> c0
    IN Result(Outcome(c), <<>>, c, lim, NoPair)

\* IBattery::clearBatteryDefenders
clearBatteryDefenders(f, lim, kind, failAt) ==
    LET c0 == Ctx(f)
        c == CASE kind = "ALL" ->
                    clear_dock(clear_dwell(clear_trickle(clear_temp(c0, failAt),
                                                         failAt), failAt), failAt)
               [] kind = "TEMP" -> clear_temp(c0, failAt)
               [] kind = "TRICKLE" -> clear_trickle(c0, failAt)
               [] kind = "DWELL" -> clear_dwell(c0, failAt)
               [] kind = "DOCK" -> clear_dock(c0, failAt)
               [] OTHER -> c0
    IN Result(Outcome(c), <<>>, c, lim, NoPair)

CalibrationModes == {"DISABLED", "ENABLED", "FORCED", "UNKNOWN"}

\* the integer code scheduleCalibration writes; -1 for an unrecognized mode
CalibrationCode(mode) ==
    CASE mode = "DISABLED" -> 0
      [] mode = "ENABLED" -> 1
      [] mode = "FORCED" -> 2
      [] OTHER -> -1

\* scheduleCalibration validating the mode before it looks for the attribute
scheduleCalibration_validate_first(f, lim, mode, failAt) ==
    LET v == CalibrationCode(mode) IN
    IF v = -1 THEN Result("InvalidArgument", <<>>, Ctx(f), lim, NoPair)
    ELSE IF ~exists(f, HEALTH_SET_CAL_MODE) THEN Result("Ok", <<>>, Ctx(f), lim, NoPair)
    ELSE LET c == write_int(Ctx(f), HEALTH_SET_CAL_MODE, v, failAt) IN
         Result(Outcome(c), <<>>, c, lim, NoPair)

\* IBattery::scheduleCalibration
scheduleCalibration(f, lim, mode, failAt) ==
    IF ~exists(f, HEALTH_SET_CAL_MODE) THEN Result("Ok", <<>>, Ctx(f), lim, NoPair)
    ELSE LET v == CalibrationCode(mode) IN
         IF v = -1 THEN Result("InvalidArgument", <<>>, Ctx(f), lim, NoPair)
         ELSE LET c == write_int(Ctx(f), HEALTH_SET_CAL_MODE, v, failAt) IN
              Result(Outcome(c), <<>>, c, lim, NoPair)

getDockDefendStatus_settings_first(f, lim) ==
    IF ~exists(f, DD_STATE) THEN Result("Ok", "DISABLED", Ctx(f), lim, NoPair)
    ELSE Result("Ok",
                IF read_int_or(f, DD_SETTINGS, -1) = -1 THEN "ERROR"
                ELSE IF read_int_or(f, DD_STATE, -1) = -1 THEN "DISABLED"
                ELSE IF read_int_or(f, DD_STATE, -1) = 1
                        /\ read_int_or(f, DD_SETTINGS, -1) = 1 THEN "ACTIVE"
                ELSE "INACTIVE",
                Ctx(f), lim, NoPair)

\* IBattery::getDockDefendStatus; the arms of the match are tried in order
getDockDefendStatus(f, lim) ==
    IF ~exists(f, DD_STATE) THEN Result("Ok", "DISABLED", Ctx(f), lim, NoPair)
    ELSE Result("Ok",
                IF read_int_or(f, DD_STATE, -1) = -1 THEN "DISABLED"
                ELSE IF read_int_or(f, DD_SETTINGS, -1) = -1 THEN "ERROR"
                ELSE IF read_int_or(f, DD_STATE, -1) = 1
                        /\ read_int_or(f, DD_SETTINGS, -1) = 1 THEN "ACTIVE"
                ELSE "INACTIVE",
                Ctx(f), lim, NoPair)

\* ------------------------------------------------------------------------
\* Health-stats texts
\* ------------------------------------------------------------------------
\* the lines the driver may publish in the health-stats attribute
HealthLines ==
    {
      \* the example line of algorithm 1, ten values:
      \*   "1: 95,4200,4300,4400,10,12,11,300,500,3"
      <<"1", ":", " ", "9", "5", ",", "4", "2", "0", "0", ",", "4", "3", "0",
        "0", ",", "4", "4", "0", "0", ",", "1", "0", ",", "1", "2", ",", "1",
        "1", ",", "3", "0", "0", ",", "5", "0", "0", ",", "3">>,
      \* another line of algorithm 1, ten values: "1:9,8,7,6,5,4,3,2,1,0"
      <<"1", ":", "9", ",", "8", ",", "7", ",", "6", ",", "5", ",", "4", ",",
        "3", ",", "2", ",", "1", ",", "0">>,
      \* a line of algorithm 1 with three values: "1: 95,4200,4300"
      <<"1", ":", " ", "9", "5", ",", "4", "2", "0", "0", ",", "4", "3", "0",
        "0">>,
      \* a line of algorithm 2: blanks around the algoId, every separator,
      \* signs, an empty piece, a piece that is no integer, eleven values:
      \*   " 2 :80 -1,+2,,3\t4 x 5,6,7,8,9,77"
      <<" ", "2", " ", ":", "8", "0", " ", "-", "1", ",", "+", "2", ",", ",",
        "3", "\t", "4", " ", "x", " ", "5", ",", "6", ",", "7", ",", "8",
        ",", "9", ",", "7", "7">>,
      \* a line of algorithm 0 ending in a carriage return:
      \*   "0:5,5,5,5,5,5,5,5,5,5\r"
      <<"0", ":", "5", ",", "5", ",", "5", ",", "5", ",", "5", ",", "5", ",",
        "5", ",", "5", ",", "5", ",", "5", "\r">>,
      \* a line without a colon: "health"
      <<"h", "e", "a", "l", "t", "h">>,
      \* a line whose algoId is no integer: "x:1,2,3,4,5,6,7,8,9,10"
      <<"x", ":", "1", ",", "2", ",", "3", ",", "4", ",", "5", ",", "6", ",",
        "7", ",", "8", ",", "9", ",", "1", "0">>
    }

MaxLines == 2

\* the lines of ls, each with its line ending
RECURSIVE JoinLines(_)
JoinLines(ls) ==
    IF ls = <<>> THEN <<>> ELSE (Head(ls) \o <<"\n">>) \o JoinLines(Tail(ls))

\* the texts the driver may publish: up to MaxLines lines
HealthBlobs ==
    {JoinLines(ls) : ls \in UNION {[1..n -> HealthLines] : n \in 0..MaxLines}}

\* ------------------------------------------------------------------------
\* Inputs and environment
\* ------------------------------------------------------------------------
MaxFailAt == 4

\* the write system calls the environment may reject in a call that would
\* issue n of them when none is rejected
FailAts(n) == 0..Min(MaxFailAt, n)

\* setChargeLimit arguments: valid pairs, both range violations, the gap
\* boundary (5 accepted, 4 rejected), a negative gap and a 32-bit overflow
LimitInputs ==
    { <<50, 45>>, <<60, 55>>, <<80, 70>>, <<100, 70>>, <<60, 0>>,
      <<50, 46>>, <<49, 0>>, <<101, 0>>, <<60, 70>>, <<50, MinI32>> }

T_garbage == <<"x">>

\* texts the driver (not the service) may leave in an attribute
EnvTexts(p) ==
    CASE p = P_CHARGING_POLICY -> {<<"1", "\n">>, <<"2", "\n">>, T_garbage}
      [] p = P_CHARGE_STOP_LEVEL -> {<<"8", "0", "\n">>, <<>>}
      [] p = P_CHARGE_START_LEVEL -> {<<"7", "0", "\n">>, <<>>}
      [] p = P_DD_STATE -> {<<"1", "\n">>, <<"0", "\n">>, T_garbage}
      [] p = P_DD_SETTINGS -> {<<"1", "\n">>}
      [] p = P_HEALTH_INDEX_STATS -> HealthBlobs
      [] p \in {P_CHARGING_STATUS, P_CHARGING_STATUS_ALT} -> {<<"2", "\n">>, T_garbage}
      [] OTHER -> {<<"0", "\n">>}

Call(op, args, r) ==
    [op |-> op, args |-> args, res |-> r.res, ret |-> r.ret, log |-> r.log,
     applied |-> r.applied]

NoCall == [op |-> "none", args |-> <<>>, res |-> "none", ret |-> <<>>, log |-> <<>>,
           applied |-> NoPair]

\* what prev keeps of a call: its operation and the pair it applied, if it
\* ran apply_levels and returned success
Applied(l) == IF l.applied # NoPair /\ l.res = "Ok" THEN <<l.op, l.applied>> ELSE <<>>

InitFs ==
    [p \in Locations |->
        CASE p = P_CHARGING_POLICY -> File(<<"1", "\n">>)
          [] p = P_CHARGE_STOP_LEVEL -> File(<<"8", "0", "\n">>)
          [] p = P_CHARGE_START_LEVEL -> File(<<"7", "0", "\n">>)
          [] p = P_DD_STATE -> File(<<"0", "\n">>)
          [] p = P_BD_CLEAR_ALT -> AbsentFile
          [] p = P_CHARGING_STATUS_ALT -> AbsentFile
          [] OTHER -> File(<<"0", "\n">>)]

\* the binder threads serving calls
Threads == {1, 2}

Idle ==
    [pc |-> "idle", op |-> "none", args |-> <<>>, stop |-> 0, start |-> 0,
     current_start |-> 0, current_stop |-> 0]

Init ==
    /\ fs = InitFs
    /\ limits = new
    /\ accepted = <<DEFAULT_STOP, DEFAULT_START>>
    /\ last = NoCall
    /\ prev = <<>>
    /\ mutex = 0
    /\ calls = [t \in Threads |-> Idle]
    /\ validated = {}

\* the driver changes, creates or removes an attribute between two calls
EnvSet ==
    \E p \in ChargeLocations : \E t \in EnvTexts(p) :
        /\ fs' = [fs EXCEPT ![p] = File(t)]
        /\ last' = NoCall
        /\ prev' = Applied(last)
        /\ UNCHANGED pool
        /\ UNCHANGED <<limits, accepted>>

EnvRemove ==
    \E p \in ChargeLocations :
        /\ fs[p].present
        /\ fs' = [fs EXCEPT ![p] = AbsentFile]
        /\ last' = NoCall
        /\ prev' = Applied(last)
        /\ UNCHANGED pool
        /\ UNCHANGED <<limits, accepted>>

SetChargingPolicy ==
    \E policy \in Policies :
    \E failAt \in FailAts(Len(setChargingPolicy(fs, limits, policy, 0).log)) :
        LET r == setChargingPolicy(fs, limits, policy, failAt) IN
        /\ fs' = r.fs
        /\ limits' = r.limits
        /\ last' = Call("setChargingPolicy", <<policy>>, r)
        /\ prev' = Applied(last)
        /\ UNCHANGED pool
        /\ UNCHANGED accepted

SetChargeLimit ==
    \E in \in LimitInputs :
    \E failAt \in FailAts(Len(setChargeLimit(fs, limits, in[1], in[2], 0, FALSE).log)) :
    \E overflow_checks \in (IF SubOverflows(in[1], in[2]) THEN BOOLEAN ELSE {FALSE}) :
        LET r == setChargeLimit(fs, limits, in[1], in[2], failAt, overflow_checks) IN
        /\ fs' = r.fs
        /\ limits' = r.limits
        /\ last' = Call("setChargeLimit", in, r)
        /\ prev' = Applied(last)
        /\ UNCHANGED pool
        /\ accepted' = IF r.res \in {"InvalidArgument", "Panic"} THEN accepted ELSE in

GetChargeLimit ==
    LET r == getChargeLimit(fs, limits) IN
    /\ fs' = r.fs
    /\ limits' = r.limits
    /\ last' = Call("getChargeLimit", <<>>, r)
    /\ prev' = Applied(last)
    /\ UNCHANGED pool
    /\ UNCHANGED accepted

Next ==
    \/ EnvSet
    \/ EnvRemove
    \/ SetChargingPolicy
    \/ SetChargeLimit
    \/ GetChargeLimit

Spec == Init /\ [][Next]_vars

\* ------------------------------------------------------------------------
\* The defender, dock-defend and calibration operations
\* ------------------------------------------------------------------------
DefendEnvSet ==
    \E p \in DefendLocations : \E t \in EnvTexts(p) :
        /\ fs' = [fs EXCEPT ![p] = File(t)]
        /\ last' = NoCall
        /\ prev' = Applied(last)
        /\ UNCHANGED pool
        /\ UNCHANGED <<limits, accepted>>

DefendEnvRemove ==
    \E p \in DefendLocations :
        /\ fs[p].present
        /\ fs' = [fs EXCEPT ![p] = AbsentFile]
        /\ last' = NoCall
        /\ prev' = Applied(last)
        /\ UNCHANGED pool
        /\ UNCHANGED <<limits, accepted>>

SetEnable ==
    \E feature \in Features : \E enabled \in BOOLEAN :
    \E failAt \in FailAts(Len(setEnable(fs, limits, feature, enabled, 0).log)) :
        LET r == setEnable(fs, limits, feature, enabled, failAt) IN
        /\ fs' = r.fs
        /\ limits' = r.limits
        /\ last' = Call("setEnable", <<feature, enabled>>, r)
        /\ prev' = Applied(last)
        /\ UNCHANGED pool
        /\ UNCHANGED accepted

ClearBatteryDefenders ==
    \E kind \in DefenderTypes :
    \E failAt \in FailAts(Len(clearBatteryDefenders(fs, limits, kind, 0).log)) :
        LET r == clearBatteryDefenders(fs, limits, kind, failAt) IN
        /\ fs' = r.fs
        /\ limits' = r.limits
        /\ last' = Call("clearBatteryDefenders", <<kind>>, r)
        /\ prev' = Applied(last)
        /\ UNCHANGED pool
        /\ UNCHANGED accepted

ScheduleCalibration ==
    \E mode \in CalibrationModes :
    \E failAt \in FailAts(Len(scheduleCalibration(fs, limits, mode, 0).log)) :
        LET r == scheduleCalibration(fs, limits, mode, failAt) IN
        /\ fs' = r.fs
        /\ limits' = r.limits
        /\ last' = Call("scheduleCalibration", <<mode>>, r)
        /\ prev' = Applied(last)
        /\ UNCHANGED pool
        /\ UNCHANGED accepted

GetDockDefendStatus ==
    LET r == getDockDefendStatus(fs, limits) IN
    /\ fs' = r.fs
    /\ limits' = r.limits
    /\ last' = Call("getDockDefendStatus", <<>>, r)
    /\ prev' = Applied(last)
    /\ UNCHANGED pool
    /\ UNCHANGED accepted

NextDefend ==
    \/ DefendEnvSet
    \/ DefendEnvRemove
    \/ SetEnable
    \/ ClearBatteryDefenders
    \/ ScheduleCalibration
    \/ GetDockDefendStatus

SpecDefend == Init /\ [][NextDefend]_vars

\* the driver changes or creates one of the attributes locs
DriverSets(locs) ==
    \E p \in locs : \E t \in EnvTexts(p) :
        /\ fs' = [fs EXCEPT ![p] = File(t)]
        /\ last' = NoCall
        /\ prev' = Applied(last)
        /\ UNCHANGED pool
        /\ UNCHANGED <<limits, accepted>>

\* the driver removes one of the attributes locs
DriverRemoves(locs) ==
    \E p \in locs :
        /\ fs[p].present
        /\ fs' = [fs EXCEPT ![p] = AbsentFile]
        /\ last' = NoCall
        /\ prev' = Applied(last)
        /\ UNCHANGED pool
        /\ UNCHANGED <<limits, accepted>>

\* ------------------------------------------------------------------------
\* The generic property operations
\* ------------------------------------------------------------------------
\* get_property_sysfs: the (feature, property, location) entries of the table
PropertyTable ==
    { <<"CHARGE_DEADLINE", 1, P_CHARGE_DEADLINE_DRYRUN>>,
      <<"CHARGE_DEADLINE", 12, "/sys/class/power_supply/battery/health_safety_margin">>,
      <<"TRICKLE_DEFEND", 0, "/sys/class/power_supply/battery/bd_trickle_enable">>,
      <<"TRICKLE_DEFEND", 1, "/sys/class/power_supply/battery/bd_trickle_dry_run">>,
      <<"TRICKLE_DEFEND", 3, P_BD_TRICKLE_RATE>>,
      <<"TRICKLE_DEFEND", 8, "/sys/class/power_supply/battery/bd_trickle_cnt">>,
      <<"TRICKLE_DEFEND", 12, P_BD_TRICKLE_RESET_SEC>>,
      <<"TRICKLE_DEFEND", 15, "/sys/class/power_supply/battery/bd_trickle_recharge_soc">>,
      <<"TRICKLE_DEFEND", 33, "/sys/class/power_supply/battery/bd_trickle_version">>,
      <<"TRICKLE_DEFEND", 50, P_BD_TRICKLE_CNT_THR>>,
      <<"WIRELESS", 5, "/sys/class/power_supply/wireless/device/mitigate_threshold">>,
      <<"CPM", 2, "/sys/devices/platform/google,cpm/dc_ctl">>,
      <<"CPM", 19, "/sys/devices/platform/google,charger/thermal_dc_fan_alarm">>,
      <<"CPM", 20, "/sys/devices/platform/google,cpm/thermal_mdis_fan_alarm">>,
      <<"AACR", 8, "/sys/class/power_supply/battery/aacr_cycle_grace">>,
      <<"AACR", 18, "/sys/class/power_supply/battery/aacr_state">>,
      <<"AACR", 21, "/sys/class/power_supply/battery/aacr_cycle_max">>,
      <<"AACR", 24, "/sys/class/power_supply/battery/aacr_min_capacity_rate">>,
      <<"AACR", 27, "/sys/class/power_supply/battery/aacr_cliff_capacity_rate">>,
      <<"AACR", 32, "/sys/class/power_supply/battery/aacr_profile">>,
      <<"HEALTH", 2, "/sys/class/power_supply/battery/health_algo">>,
      <<"HEALTH", 23, "/sys/class/power_supply/battery/health_set_trend_points">>,
      <<"HEALTH", 24, "/sys/class/power_supply/battery/health_set_low_boundary">>,
      <<"CSI_STATS", 25, "/sys/class/power_supply/battery/csi_stats">>,
      <<"FW_UPDATE", 0, "/sys/devices/platform/maxim,max77779fwu/enable_update">>,
      <<"FW_UPDATE", 26, "/sys/devices/platform/maxim,max77779fwu/update_firmware">>,
      <<"CHARGE_LIMIT", 5, "/sys/class/power_supply/battery/charge_to_limit">>,
      <<"CHARGE_LIMIT", 39, "/sys/class/power_supply/battery/force_fcr_update_ops">>,
      <<"CHARGE_LIMIT", 41, "/sys/class/power_supply/maxfg/bypass_chargelimit_fcn_delta">>,
      <<"CHARGE_LIMIT", 42, "/sys/class/power_supply/maxfg/bypass_chargelimit_cycle_delta">>,
      <<"CHARGE_LIMIT", 43, "/sys/class/power_supply/maxfg/bypass_chargelimit_mode">>,
      <<"FG_CYCLE", 0, "/sys/class/power_supply/maxfg/fix_cycle_count">>,
      <<"AAFV", 18, "/sys/class/power_supply/battery/aafv_state">>,
      <<"AAFV", 28, "/sys/class/power_supply/battery/aafv_apply_max">>,
      <<"AAFV", 29, "/sys/class/power_supply/battery/aafv_max_offset">>,
      <<"AAFV", 30, "/sys/class/power_supply/battery/aafv_cliff_cycle">>,
      <<"AAFV", 31, "/sys/class/power_supply/battery/aafv_cliff_offset">>,
      <<"AAFV", 32, "/sys/class/power_supply/battery/aafv_profile">>,
      <<"AAFV", 38, "/sys/class/power_supply/maxfg/aafv_config">>,
      <<"AACT", 18, "/sys/class/power_supply/battery/aact_state">>,
      <<"AACT", 32, "/sys/class/power_supply/battery/aact_profile">>,
      <<"AACT", 34, "/sys/class/power_supply/battery/aact_cv_limits">>,
      <<"AACT", 35, "/sys/class/power_supply/battery/aact_temp_limits">>,
      <<"AACT", 36, "/sys/class/power_supply/battery/aact_chg_ecc">>,
      <<"AACP", 33, "/sys/class/power_supply/battery/aacp_version">>,
      <<"AACP", 37, "/sys/class/power_supply/battery/aacp_opt_out">>,
      <<"AACP", 44, "/sys/class/power_supply/battery/aacp_opt_out_cutoff_cycles">>,
      <<"WLC_FW", 0, "/sys/class/power_supply/wireless/device/rx_fwupdate">>,
      <<"WLC_FW", 26, "/sys/class/power_supply/wireless/device/rx_vertag">>,
      <<"QI22", 0, "/sys/class/power_supply/wireless/device/qi22_en_gpio">>,
      <<"AACC", 32, "/sys/class/power_supply/battery/aacc_chg_profile">> }

\* get_property_sysfs: the location of a feature's property, NoLoc for None
get_property_sysfs(feature, prop) ==
    IF \E e \in PropertyTable : e[1] = feature /\ e[2] = prop
    THEN (CHOOSE e \in PropertyTable : e[1] = feature /\ e[2] = prop)[3]
    ELSE NoLoc

\* What the store does to the one access a property call makes after it has
\* found the location present: it serves it, rejects it with an I/O error, or
\* the location has been removed in between.
Accesses == {"ok", "io", "gone"}

\* the store at the time of the access
AtAccess(f, path, access) ==
    IF access = "gone" THEN [f EXCEPT ![path] = AbsentFile] ELSE f

\* the read of getStringProperty, sysfs::read_string(path), under the access
read_property(f, path, access) ==
    IF access = "io" THEN [err |-> "Io", s |-> <<>>]
    ELSE read_string(AtAccess(f, path, access), path)

\* the value a property read returns, its error mapped by sysfs_err
read_outcome(r, f, lim) ==
    IF r.err = "none" THEN Result("Ok", r.s, Ctx(f), lim, NoPair)
    ELSE Result("BackendFailure", <<>>, Ctx(f), lim, NoPair)

\* IBattery::getStringProperty
getStringProperty(f, lim, feature, prop, access) ==
    IF prop >= 51 THEN Result("InvalidArgument", <<>>, Ctx(f), lim, NoPair)
    ELSE LET path == get_property_sysfs(feature, prop) IN
         IF path # NoLoc /\ PathExists(f, path)
         THEN read_outcome(read_property(f, path, access),
                           AtAccess(f, path, access), lim)
         ELSE Result("Ok", <<>>, Ctx(f), lim, NoPair)

setStringProperty_unchecked(f, lim, feature, prop, value, access) ==
    IF prop >= 51 THEN Result("InvalidArgument", <<>>, Ctx(f), lim, NoPair)
    ELSE LET path == get_property_sysfs(feature, prop) IN
         IF path # NoLoc
         THEN LET c == write_string(Ctx(AtAccess(f, path, access)), path, value,
                                    IF access = "io" THEN 1 ELSE 0)
              IN Result(Outcome(c), <<>>, c, lim, NoPair)
         ELSE Result("Ok", <<>>, Ctx(f), lim, NoPair)

\* IBattery::setStringProperty
setStringProperty(f, lim, feature, prop, value, access) ==
    IF prop >= 51 THEN Result("InvalidArgument", <<>>, Ctx(f), lim, NoPair)
    ELSE LET path == get_property_sysfs(feature, prop) IN
         IF path # NoLoc /\ PathExists(f, path)
         THEN LET c == write_string(Ctx(AtAccess(f, path, access)), path, value,
                                    IF access = "io" THEN 1 ELSE 0)
              IN Result(Outcome(c), <<>>, c, lim, NoPair)
         ELSE Result("Ok", <<>>, Ctx(f), lim, NoPair)

\* the outcomes of the access the call makes on the store f, none when it
\* makes no access
AccessesOf(f, feature, prop) ==
    IF prop < 51 /\ PathExists(f, get_property_sysfs(feature, prop))
    THEN Accesses ELSE {"ok"}

\* features and properties of the calls: mapped pairs (two features sharing
\* property 1 and 12), unmapped pairs, an unknown feature, a negative
\* property and both sides of the range limit
PropFeatures == {"CHARGE_DEADLINE", "TRICKLE_DEFEND", "AACR", "UNKNOWN"}
PropIds == {-1, 1, 12, 50, 51}
PropValues == {<<"1">>, <<"o", "n", "\n">>}

GetStringProperty ==
    \E feature \in PropFeatures : \E prop \in PropIds :
    \E access \in AccessesOf(fs, feature, prop) :
        LET r == getStringProperty(fs, limits, feature, prop, access) IN
        /\ fs' = r.fs
        /\ limits' = r.limits
        /\ last' = Call("getStringProperty", <<feature, prop, access>>, r)
        /\ prev' = Applied(last)
        /\ UNCHANGED pool
        /\ UNCHANGED accepted

SetStringProperty ==
    \E feature \in PropFeatures : \E prop \in PropIds : \E value \in PropValues :
    \E access \in AccessesOf(fs, feature, prop) :
        LET r == setStringProperty(fs, limits, feature, prop, value, access) IN
        /\ fs' = r.fs
        /\ limits' = r.limits
        /\ last' = Call("setStringProperty", <<feature, prop, value, access>>, r)
        /\ prev' = Applied(last)
        /\ UNCHANGED pool
        /\ UNCHANGED accepted

NextProps ==
    \/ DriverSets(PropLocations)
    \/ DriverRemoves(PropLocations)
    \/ GetStringProperty
    \/ SetStringProperty

SpecProps == Init /\ [][NextProps]_vars

\* ------------------------------------------------------------------------
\* getHealthStats
\* ------------------------------------------------------------------------
\* str::split on the characters of seps, empty pieces included: the pieces
\* between one separator, or the start of s, and the next, or the end of s
split(s, seps) ==
    LET cuts == {i \in 1..Len(s) : s[i] \in seps}
        cut(k) == IF k = 0 THEN 0
                  ELSE IF k = Cardinality(cuts) + 1 THEN Len(s) + 1
                  ELSE CHOOSE i \in cuts : Cardinality({j \in cuts : j < i}) = k - 1
    IN [k \in 1..(Cardinality(cuts) + 1) |-> SubSeq(s, cut(k - 1) + 1, cut(k) - 1)]

\* the "\r" of a "\r\n" line ending
StripCR(s) ==
    IF s # <<>> /\ s[Len(s)] = "\r" THEN SubSeq(s, 1, Len(s) - 1) ELSE s

\* str::lines: the pieces between "\n", the line ending "\r\n" stripped too,
\* no last line after a final line ending
lines(s) ==
    LET pieces == split(s, {"\n"}) IN
    [i \in 1..(Len(pieces) - 1) |-> StripCR(pieces[i])]
        \o (IF pieces[Len(pieces)] = <<>> THEN <<>> ELSE <<pieces[Len(pieces)]>>)

\* str::split_once(':'): the text before and after the first ':'
split_once(s) ==
    IF \E i \in 1..Len(s) : s[i] = ":"
    THEN LET k == CHOOSE i \in 1..Len(s) :
                      s[i] = ":" /\ \A j \in 1..(i - 1) : s[j] # ":"
         IN [found |-> TRUE, a |-> SubSeq(s, 1, k - 1), rest |-> SubSeq(s, k + 1, Len(s))]
    ELSE [found |-> FALSE, a |-> <<>>, rest |-> <<>>]

\* rest.split(',' or whitespace).filter_map(parse).collect(): the pieces that
\* are integers, in order
field_values(rest) ==
    LET parsed == [i \in 1..Len(split(rest, {",", " ", "\t", "\r", "\n"})) |->
                      parse_i32(split(rest, {",", " ", "\t", "\r", "\n"})[i])]
        IsParsed(r) == r.ok
        kept == SelectSeq(parsed, IsParsed)
    IN [i \in 1..Len(kept) |-> kept[i].v]

\* HealthStats built from the first ten values
HealthStats(algo, v) ==
    [algo |-> algo, healthIndex |-> v[1], capacityFcc |-> v[2], capacityRaw |-> v[3],
     capacityDesign |-> v[4], impedanceRaw |-> v[5], impedanceAvg |-> v[6],
     impedanceDesign |-> v[7], cycleCount |-> v[8], cycleCountDesign |-> v[9],
     tempBucket |-> v[10]]

\* HealthStats::default()
HealthStats_default == HealthStats(0, [i \in 1..10 |-> 0])

None == [some |-> FALSE, v |-> HealthStats_default]
Some(x) == [some |-> TRUE, v |-> x]

\* what the loop body of parse_health_stats does with one line: it leaves the
\* function with None ("abort", the ? operators), goes on to the next line
\* ("next": another algoId, or fewer than ten values) or returns a record
line_step(sp, algo) ==
    IF ~sp.found THEN [kind |-> "abort"]
    ELSE IF ~parse_i32(trim(sp.a)).ok THEN [kind |-> "abort"]
    ELSE IF parse_i32(trim(sp.a)).v # algo THEN [kind |-> "next"]
    ELSE IF Len(field_values(sp.rest)) >= 10
         THEN [kind |-> "return", v |-> HealthStats(algo, field_values(sp.rest))]
    ELSE [kind |-> "next"]

\* the for loop of parse_health_stats over the lines from line i on
RECURSIVE scan_lines(_, _, _)
scan_lines(ls, i, algo) ==
    IF i > Len(ls) THEN None
    ELSE IF line_step(split_once(ls[i]), algo).kind = "abort" THEN None
    ELSE IF line_step(split_once(ls[i]), algo).kind = "next"
         THEN scan_lines(ls, i + 1, algo)
    ELSE Some(line_step(split_once(ls[i]), algo).v)

\* BatteryService::parse_health_stats
parse_health_stats(f, algo) ==
    IF SysfsPath_read_string(f, HEALTH_INDEX_STATS).err # "none" THEN None
    ELSE scan_lines(lines(SysfsPath_read_string(f, HEALTH_INDEX_STATS).s), 1, algo)

HealthAlgos == {"GOOGLE", "MAXIM", "UNKNOWN"}

\* the match of getHealthStats on the algorithm
AlgoCode(algo) ==
    CASE algo = "GOOGLE" -> 1
      [] algo = "MAXIM" -> 2
      [] OTHER -> 0

\* IBattery::getHealthStats
getHealthStats(f, lim, algo) ==
    Result("Ok",
           IF parse_health_stats(f, AlgoCode(algo)).some
           THEN parse_health_stats(f, AlgoCode(algo)).v ELSE HealthStats_default,
           Ctx(f), lim, NoPair)

GetHealthStats ==
    \E algo \in HealthAlgos :
        LET r == getHealthStats(fs, limits, algo) IN
        /\ fs' = r.fs
        /\ limits' = r.limits
        /\ last' = Call("getHealthStats", <<algo>>, r)
        /\ prev' = Applied(last)
        /\ UNCHANGED pool
        /\ UNCHANGED accepted

NextHealth ==
    \/ DriverSets({P_HEALTH_INDEX_STATS})
    \/ DriverRemoves({P_HEALTH_INDEX_STATS})
    \/ GetHealthStats

SpecHealth == Init /\ [][NextHealth]_vars

\* ------------------------------------------------------------------------
\* Attributes with an alternate location
\* ------------------------------------------------------------------------
\* IBattery::getChargingStatus
getChargingStatus(f, lim) ==
    Result("Ok", read_int_or(f, CHARGING_STATUS, -1), Ctx(f), lim, NoPair)

GetChargingStatus ==
    LET r == getChargingStatus(fs, limits) IN
    /\ fs' = r.fs
    /\ limits' = r.limits
    /\ last' = Call("getChargingStatus", <<>>, r)
    /\ prev' = Applied(last)
    /\ UNCHANGED pool
    /\ UNCHANGED accepted

\* clearBatteryDefenders for the temperature defender, whose attribute
\* BD_CLEAR has an alternate
ClearTempDefender ==
    \E failAt \in FailAts(Len(clearBatteryDefenders(fs, limits, "TEMP", 0).log)) :
        LET r == clearBatteryDefenders(fs, limits, "TEMP", failAt) IN
        /\ fs' = r.fs
        /\ limits' = r.limits
        /\ last' = Call("clearBatteryDefenders", <<"TEMP">>, r)
        /\ prev' = Applied(last)
        /\ UNCHANGED pool
        /\ UNCHANGED accepted

NextResolve ==
    \/ DriverSets(ResolveLocations)
    \/ DriverRemoves(ResolveLocations)
    \/ GetChargingStatus
    \/ ClearTempDefender

SpecResolve == Init /\ [][NextResolve]_vars

\* ------------------------------------------------------------------------
\* Concurrent calls on the binder thread pool
\* ------------------------------------------------------------------------
\* main starts one pool thread and joins the pool itself: two threads serve
\* calls.  Each call runs as a sequence of steps; a step is one access to the
\* shared cache, to the mutex or to the store.
ConcLimitInputs == {<<60, 55>>, <<80, 75>>, <<49, 0>>}
ConcPolicies == {"DEFAULT", "CUSTOM", "UNKNOWN"}

\* thread t returns from its call; the record keeps the pair handed to
\* apply_levels when the call returns from inside it
ConcReturn(t, res, ret) ==
    /\ last' = [op |-> calls[t].op, args |-> calls[t].args, res |-> res, ret |-> ret,
                log |-> <<>>,
                applied |-> IF calls[t].pc \in {"prep_start", "write_stop", "write_start"}
                            THEN <<calls[t].stop, calls[t].start>>
                            ELSE NoPair]
    /\ prev' = Applied(last)
    /\ calls' = [calls EXCEPT ![t] = Idle]

\* thread t moves on inside its call
ConcGoto(t, pc) ==
    /\ calls' = [calls EXCEPT ![t].pc = pc]
    /\ UNCHANGED <<last, prev>>

\* the MutexGuard of t is never dropped
Dropped_never(t) == mutex

\* the MutexGuard of t, if it holds one, is dropped
Dropped(t) == IF mutex = t THEN 0 ELSE mutex

\* setChargeLimit: the two range checks, on a pair whose subtraction does
\* not overflow
BeginSetChargeLimit(t) ==
    /\ calls[t].pc = "idle"
    /\ \E in \in ConcLimitInputs :
          IF ~(50 <= in[1] /\ in[1] <= 100) \/ WrappingSub(in[1], in[2]) < 5
          THEN /\ last' = [op |-> "setChargeLimit", args |-> in,
                           res |-> "InvalidArgument", ret |-> <<>>, log |-> <<>>,
                           applied |-> NoPair]
               /\ prev' = Applied(last)
               /\ UNCHANGED <<calls, validated>>
          ELSE /\ calls' = [calls EXCEPT ![t] =
                               [Idle EXCEPT !.pc = "lock", !.op = "setChargeLimit",
                                            !.args = in, !.stop = in[1], !.start = in[2]]]
               /\ validated' = validated \cup {in}
               /\ UNCHANGED <<last, prev>>
    /\ UNCHANGED <<fs, limits, accepted, mutex>>

BeginGetChargeLimit(t) ==
    /\ calls[t].pc = "idle"
    /\ calls' = [calls EXCEPT ![t] = [Idle EXCEPT !.pc = "lock", !.op = "getChargeLimit"]]
    /\ UNCHANGED <<fs, limits, accepted, last, prev, mutex, validated>>

\* setChargingPolicy: the match on the policy
BeginSetChargingPolicy(t) ==
    /\ calls[t].pc = "idle"
    /\ \E policy \in ConcPolicies :
          IF PolicyCode(policy) = -1
          THEN /\ last' = [op |-> "setChargingPolicy", args |-> <<policy>>,
                           res |-> "InvalidArgument", ret |-> <<>>, log |-> <<>>,
                           applied |-> NoPair]
               /\ prev' = Applied(last)
               /\ UNCHANGED calls
          ELSE /\ calls' = [calls EXCEPT ![t] =
                               [Idle EXCEPT !.pc = "write_policy",
                                            !.op = "setChargingPolicy",
                                            !.args = <<policy>>]]
               /\ UNCHANGED <<last, prev>>
    /\ UNCHANGED <<fs, limits, accepted, mutex, validated>>

\* setChargingPolicy: the existence test and the write of the policy code
WritePolicy(t) ==
    /\ calls[t].pc = "write_policy"
    /\ IF ~exists(fs, CHARGING_POLICY)
       THEN ConcReturn(t, "Ok", <<>>) /\ UNCHANGED fs
       ELSE \E failAt \in FailAts(1) :
            LET c == write_int(Ctx(fs), CHARGING_POLICY,
                               PolicyCode(calls[t].args[1]), failAt) IN
            /\ fs' = c.fs
            /\ IF c.err # "none" THEN ConcReturn(t, "BackendFailure", <<>>)
               ELSE IF calls[t].args[1] = "CUSTOM" THEN ConcGoto(t, "lock")
               ELSE ConcReturn(t, "Ok", <<>>)
    /\ UNCHANGED <<limits, accepted, mutex, validated>>

\* the step after self.limits.lock() in each of the three operations
Locked(op) ==
    CASE op = "setChargeLimit" -> "store_stop"
      [] op = "getChargeLimit" -> "get_stop"
      [] op = "setChargingPolicy" -> "load_limits"

LockLimits_not_taken(t) ==
    /\ calls[t].pc = "lock"
    /\ ConcGoto(t, Locked(calls[t].op))
    /\ UNCHANGED <<fs, limits, accepted, mutex, validated>>

\* self.limits.lock(): blocks while another thread holds the mutex
LockLimits(t) ==
    /\ calls[t].pc = "lock"
    /\ mutex = 0
    /\ mutex' = t
    /\ ConcGoto(t, Locked(calls[t].op))
    /\ UNCHANGED <<fs, limits, accepted, validated>>

\* setChargeLimit: l.stop = stop
StoreStop(t) ==
    /\ calls[t].pc = "store_stop"
    /\ limits' = <<calls[t].stop, limits[2]>>
    /\ ConcGoto(t, "store_start")
    /\ UNCHANGED <<fs, accepted, mutex, validated>>

\* setChargeLimit: l.start = start, and the guard is dropped at the end of
\* the block
StoreStart(t) ==
    /\ calls[t].pc = "store_start"
    /\ limits' = <<limits[1], calls[t].start>>
    /\ mutex' = Dropped(t)
    /\ ConcGoto(t, "read_policy")
    /\ UNCHANGED <<fs, accepted, validated>>

\* setChargeLimit: the policy test before apply_levels
ReadPolicy(t) ==
    /\ calls[t].pc = "read_policy"
    /\ IF read_int_or(fs, CHARGING_POLICY, 1) = 2
       THEN ConcGoto(t, "read_current_start")
       ELSE ConcReturn(t, "Ok", <<>>)
    /\ UNCHANGED <<fs, limits, accepted, mutex, validated>>

\* setChargingPolicy(CUSTOM): the arguments l.stop, l.start of apply_levels
LoadLimits(t) ==
    /\ calls[t].pc = "load_limits"
    /\ calls' = [calls EXCEPT ![t].stop = limits[1], ![t].start = limits[2],
                              ![t].pc = "read_current_start"]
    /\ UNCHANGED <<fs, limits, accepted, last, prev, mutex, validated>>

\* apply_levels: current_start
ReadCurrentStart(t) ==
    /\ calls[t].pc = "read_current_start"
    /\ calls' = [calls EXCEPT ![t].current_start = read_int_or(fs, CHARGE_START_LEVEL, 0),
                              ![t].pc = "read_current_stop"]
    /\ UNCHANGED <<fs, limits, accepted, last, prev, mutex, validated>>

\* apply_levels: current_stop
ReadCurrentStop(t) ==
    /\ calls[t].pc = "read_current_stop"
    /\ calls' = [calls EXCEPT ![t].current_stop = read_int_or(fs, CHARGE_STOP_LEVEL, 100),
                              ![t].pc = "prep_start"]
    /\ UNCHANGED <<fs, limits, accepted, last, prev, mutex, validated>>

\* a step of apply_levels that has left the context c: the call returns at
\* once on an error or after the last step, dropping the guard it may hold
ApplyStep(t, c, next) ==
    /\ fs' = c.fs
    /\ IF c.err # "none"
       THEN ConcReturn(t, "BackendFailure", <<>>) /\ mutex' = Dropped(t)
       ELSE IF next = "return"
       THEN ConcReturn(t, "Ok", <<>>) /\ mutex' = Dropped(t)
       ELSE ConcGoto(t, next) /\ UNCHANGED mutex
    /\ UNCHANGED <<limits, accepted, validated>>

\* apply_levels: the transitional write of start
PrepStart(t) ==
    /\ calls[t].pc = "prep_start"
    /\ \E failAt \in FailAts(Len(write_prep_start(Ctx(fs), calls[t].stop, calls[t].start,
                                                  calls[t].current_start, 0).log)) :
          ApplyStep(t, write_prep_start(Ctx(fs), calls[t].stop, calls[t].start,
                                        calls[t].current_start, failAt), "write_stop")

\* apply_levels: the write of stop
WriteStop(t) ==
    /\ calls[t].pc = "write_stop"
    /\ \E failAt \in FailAts(Len(write_stop(Ctx(fs), calls[t].stop,
                                            calls[t].current_stop, 0).log)) :
          ApplyStep(t, write_stop(Ctx(fs), calls[t].stop, calls[t].current_stop, failAt),
                    "write_start")

\* apply_levels: the write of start
WriteStart(t) ==
    /\ calls[t].pc = "write_start"
    /\ \E failAt \in FailAts(Len(write_start(Ctx(fs), calls[t].stop, calls[t].start,
                                             calls[t].current_start, 0).log)) :
          ApplyStep(t, write_start(Ctx(fs), calls[t].stop, calls[t].start,
                                   calls[t].current_start, failAt), "return")

\* getChargeLimit: the stop level, the cached one by default
GetStop(t) ==
    /\ calls[t].pc = "get_stop"
    /\ calls' = [calls EXCEPT ![t].stop = read_int_or(fs, CHARGE_STOP_LEVEL, limits[1]),
                              ![t].pc = "get_start"]
    /\ UNCHANGED <<fs, limits, accepted, last, prev, mutex, validated>>

\* getChargeLimit: the start level, the cached one by default, and the return
GetStart(t) ==
    /\ calls[t].pc = "get_start"
    /\ ConcReturn(t, "Ok", <<calls[t].stop,
                             read_int_or(fs, CHARGE_START_LEVEL, limits[2])>>)
    /\ mutex' = Dropped(t)
    /\ UNCHANGED <<fs, limits, accepted, validated>>

NextConc ==
    \/ \E t \in Threads : BeginSetChargeLimit(t)
    \/ \E t \in Threads : BeginGetChargeLimit(t)
    \/ \E t \in Threads : BeginSetChargingPolicy(t)
    \/ \E t \in Threads : WritePolicy(t)
    \/ \E t \in Threads : LockLimits(t)
    \/ \E t \in Threads : StoreStop(t)
    \/ \E t \in Threads : StoreStart(t)
    \/ \E t \in Threads : ReadPolicy(t)
    \/ \E t \in Threads : LoadLimits(t)
    \/ \E t \in Threads : ReadCurrentStart(t)
    \/ \E t \in Threads : ReadCurrentStop(t)
    \/ \E t \in Threads : PrepStart(t)
    \/ \E t \in Threads : WriteStop(t)
    \/ \E t \in Threads : WriteStart(t)
    \/ \E t \in Threads : GetStop(t)
    \/ \E t \in Threads : GetStart(t)

SpecConc == Init /\ [][NextConc]_vars

\* a step of thread t inside a call, other than taking the lock: a store
\* access that returns, or an access to the Limits under the guard it holds
Running(t) ==
    \/ WritePolicy(t) \/ StoreStop(t) \/ StoreStart(t) \/ ReadPolicy(t)
    \/ LoadLimits(t) \/ ReadCurrentStart(t) \/ ReadCurrentStop(t)
    \/ PrepStart(t) \/ WriteStop(t) \/ WriteStart(t)
    \/ GetStop(t) \/ GetStart(t)

\* the calls of the lock scenario: one valid setChargeLimit, getChargeLimit,
\* and setChargingPolicy(CUSTOM), the path that holds the guard longest
NextLive ==
    \/ \E t \in Threads : BeginSetChargeLimit(t) /\ calls'[t].args = <<60, 55>>
    \/ \E t \in Threads : BeginGetChargeLimit(t)
    \/ \E t \in Threads : BeginSetChargingPolicy(t) /\ calls'[t].args = <<"CUSTOM">>
    \/ \E t \in Threads : LockLimits(t)
    \/ \E t \in Threads : Running(t)

\* the serving threads keep running: a thread inside a call takes its next
\* step, and a thread blocked in lock() gets the Mutex if it is unlocked
\* again and again.  Callers are free to stop calling.
SpecLive ==
    /\ Init /\ [][NextLive]_vars
    /\ \A t \in Threads : WF_vars(Running(t)) /\ SF_vars(LockLimits(t))

\* ------------------------------------------------------------------------
\* Two setChargeLimit calls racing under the CUSTOM policy, on a driver
\* that enforces its rules for the coupled writes
\* ------------------------------------------------------------------------
\* the integer the attribute holds on the store f
Stored(f, ref) == SysfsPath_read_int(f, ref).v

\* the driver's rule for a write to the stop or start attribute on the store
\* f: a stop above the stored start, a start below the stored stop, and
\* never the value the attribute already holds
Acceptable(f, e) ==
    LET v == parse_i32(e.text).v IN
    IF e.loc = P_CHARGE_STOP_LEVEL
    THEN v > Stored(f, CHARGE_START_LEVEL) /\ v # Stored(f, CHARGE_STOP_LEVEL)
    ELSE v < Stored(f, CHARGE_STOP_LEVEL) /\ v # Stored(f, CHARGE_START_LEVEL)

\* the write, if any, that the step of apply_levels thread t stands at
\* issues on the current store
IssuedWrite(t) ==
    CASE calls[t].pc = "prep_start" ->
             write_prep_start(Ctx(fs), calls[t].stop, calls[t].start,
                              calls[t].current_start, 0).log
      [] calls[t].pc = "write_stop" ->
             write_stop(Ctx(fs), calls[t].stop, calls[t].current_stop, 0).log
      [] calls[t].pc = "write_start" ->
             write_start(Ctx(fs), calls[t].stop, calls[t].start,
                         calls[t].current_start, 0).log
      [] OTHER -> <<>>

\* the driver rejects the write of t's step if it breaks a rule: the store
\* is left as it was and the call returns the failure
DriverEnforces(t) ==
    \A i \in 1..Len(IssuedWrite(t)) :
        ~Acceptable(fs, IssuedWrite(t)[i])
            => /\ fs' = fs
               /\ calls'[t].pc = "idle"
               /\ last'.res = "BackendFailure"

\* the policy attribute holds the CUSTOM code
InitRace ==
    /\ fs = [InitFs EXCEPT ![P_CHARGING_POLICY] = File(<<"2", "\n">>)]
    /\ limits = new
    /\ accepted = <<DEFAULT_STOP, DEFAULT_START>>
    /\ last = NoCall
    /\ prev = <<>>
    /\ mutex = 0
    /\ calls = [t \in Threads |-> Idle]
    /\ validated = {}

\* a setChargeLimit with a valid pair no earlier call has had
RaceBegin(t) ==
    /\ BeginSetChargeLimit(t)
    /\ validated' # validated

NextRace ==
    \/ \E t \in Threads : RaceBegin(t)
    \/ \E t \in Threads : LockLimits(t)
    \/ \E t \in Threads : StoreStop(t)
    \/ \E t \in Threads : StoreStart(t)
    \/ \E t \in Threads : ReadPolicy(t)
    \/ \E t \in Threads : ReadCurrentStart(t)
    \/ \E t \in Threads : ReadCurrentStop(t)
    \/ \E t \in Threads : PrepStart(t) /\ DriverEnforces(t)
    \/ \E t \in Threads : WriteStop(t) /\ DriverEnforces(t)
    \/ \E t \in Threads : WriteStart(t) /\ DriverEnforces(t)

SpecRace == InitRace /\ [][NextRace]_vars

\* ------------------------------------------------------------------------
\* Properties of the charge-limit operations
\* ------------------------------------------------------------------------
\* stop in [50,100] and stop - start >= 5, over the integers
ValidPair(a) == 50 <= a[1] /\ a[1] <= 100 /\ a[2] <= a[1] - 5

IsStopWrite(e) == e.loc = P_CHARGE_STOP_LEVEL
IsStartWrite(e) == e.loc = P_CHARGE_START_LEVEL
IsLimitWrite(e) == IsStopWrite(e) \/ IsStartWrite(e)

\* the writes of a log to the stop and start attributes, in order
LimitWrites(log) == SelectSeq(log, IsLimitWrite)

\* the attribute currently reads as the integer v
Holds(f, ref, v) ==
    LET r == SysfsPath_read_int(f, ref) IN r.err = "none" /\ r.v = v

Readable(f, ref) == SysfsPath_read_int(f, ref).err = "none"

\* C1 (as stated): from any state, whatever the policy, a setChargeLimit
\* with a valid pair that returns success, followed immediately by
\* getChargeLimit, makes getChargeLimit return exactly that pair.
C1_SetThenGetAnyPolicy ==
    [][(/\ last.op = "setChargeLimit"
        /\ last.res = "Ok"
        /\ ValidPair(last.args)
        /\ last'.op = "getChargeLimit")
       => last'.ret = last.args]_vars

\* C1 (amended): a successful setChargeLimit with a valid pair, issued while
\* the policy attribute reads 2 (CUSTOM), followed immediately by
\* getChargeLimit, makes getChargeLimit return exactly that pair.
C1_SetThenGetCustom ==
    [][(/\ last.op = "setChargeLimit"
        /\ last.res = "Ok"
        /\ ValidPair(last.args)
        /\ read_int_or(fs, CHARGING_POLICY, 1) = 2
        /\ last'.op = "getChargeLimit")
       => last'.ret = last.args]_vars

\* getChargeLimit has returned the pair that the setChargeLimit just before
\* it wrote to both attributes
C1_Witness ==
    /\ last.op = "getChargeLimit"
    /\ prev = <<"setChargeLimit", <<60, 55>>>>
    /\ last.ret = <<60, 55>>
    /\ fs[P_CHARGE_STOP_LEVEL].text = <<"6", "0">>
    /\ fs[P_CHARGE_START_LEVEL].text = <<"5", "5">>

\* C2: a setChargeLimit whose pair violates stop in [50,100] or
\* stop - start >= 5 fails with InvalidArgument, leaves the cached Limits
\* unchanged and issues no write (the store is unchanged).
C2_InvalidRejected ==
    [][(last'.op = "setChargeLimit" /\ ~ValidPair(last'.args))
       => (/\ last'.res = "InvalidArgument"
           /\ limits' = limits
           /\ last'.log = <<>>
           /\ fs' = fs)]_vars

\* a gap of 4 has been rejected under CUSTOM while the cache holds a
\* non-default pair
C2_Witness ==
    /\ last.op = "setChargeLimit"
    /\ last.args = <<50, 46>>
    /\ last.res = "InvalidArgument"
    /\ limits = <<60, 55>>
    /\ read_int_or(fs, CHARGING_POLICY, 1) = 2

\* C3: when a call has applied a pair successfully and the very next call
\* applies the same pair, the second application issues no write to the stop
\* and start attributes and succeeds.
C3_Idempotent ==
    [][(/\ last.applied # NoPair
        /\ last.res = "Ok"
        /\ last'.applied = last.applied)
       => (LimitWrites(last'.log) = <<>> /\ last'.res = "Ok")]_vars

\* the same pair has been applied twice in a row, the first time with writes
C3_Witness ==
    /\ prev = <<"setChargeLimit", <<60, 55>>>>
    /\ last.op = "setChargeLimit"
    /\ last.applied = <<60, 55>>
    /\ last.res = "Ok"
    /\ last.log = <<>>
    /\ Holds(fs, CHARGE_STOP_LEVEL, 60)
    /\ Holds(fs, CHARGE_START_LEVEL, 55)

\* C4: when the target stop is not greater than the stored start, the first
\* write to the two attributes is the transitional start min(start, stop - 1),
\* any stop write comes after it and start is not written again; for every
\* applied pair the transitional value is the target start and start is
\* written at most once.
C4_StartBeforeStop ==
    [][last'.applied # NoPair =>
        LET stop == last'.applied[1]
            start == last'.applied[2]
            cur == SysfsPath_read_int(fs, CHARGE_START_LEVEL)
            lw == LimitWrites(last'.log)
        IN /\ Min(start, stop - 1) = start
           /\ Len(SelectSeq(lw, IsStartWrite)) <= 1
           /\ (cur.err = "none" /\ stop <= cur.v) =>
                 /\ lw # <<>>
                 /\ lw[1].loc = P_CHARGE_START_LEVEL
                 /\ lw[1].text = to_string(Min(start, stop - 1))
                 /\ Len(SelectSeq(lw, IsStartWrite)) = 1
                 /\ \A i \in 1..Len(lw) : IsStopWrite(lw[i]) => i > 1]_vars

\* (60,55) has been applied over a stored start of at least 60: start 55 was
\* written first, then stop 60, and nothing else
C4_Witness ==
    /\ last.applied = <<60, 55>>
    /\ last.res = "Ok"
    /\ LimitWrites(last.log) =
         << [loc |-> P_CHARGE_START_LEVEL, text |-> <<"5", "5">>, ok |-> TRUE],
            [loc |-> P_CHARGE_STOP_LEVEL, text |-> <<"6", "0">>, ok |-> TRUE] >>

\* setChargingPolicy with a policy other than CUSTOM writes neither limit
NonCustomLeavesLimits ==
    (last'.op = "setChargingPolicy" /\ last'.args # <<"CUSTOM">>)
        => LimitWrites(last'.log) = <<>>

\* C5 (as stated): after a successful setChargingPolicy(CUSTOM) with the
\* policy, stop and start attributes present (and accepting the writes), the
\* stop and start attributes hold the cached Limits, which are the pair of
\* the last setChargeLimit that passed validation or (80,70); the other
\* policies never write stop or start.
C5_CustomReappliesPresent ==
    [][/\ (/\ last'.op = "setChargingPolicy"
            /\ last'.args = <<"CUSTOM">>
            /\ last'.res = "Ok"
            /\ exists(fs, CHARGING_POLICY)
            /\ exists(fs, CHARGE_STOP_LEVEL)
            /\ exists(fs, CHARGE_START_LEVEL))
           => (/\ limits' = accepted'
               /\ Holds(fs', CHARGE_STOP_LEVEL, accepted'[1])
               /\ Holds(fs', CHARGE_START_LEVEL, accepted'[2]))
       /\ NonCustomLeavesLimits]_vars

\* C5 (amended): the same, for stop and start attributes that are present
\* and readable as integers when the call is made.
C5_CustomReappliesReadable ==
    [][/\ (/\ last'.op = "setChargingPolicy"
            /\ last'.args = <<"CUSTOM">>
            /\ last'.res = "Ok"
            /\ exists(fs, CHARGING_POLICY)
            /\ Readable(fs, CHARGE_STOP_LEVEL)
            /\ Readable(fs, CHARGE_START_LEVEL))
           => (/\ limits' = accepted'
               /\ Holds(fs', CHARGE_STOP_LEVEL, accepted'[1])
               /\ Holds(fs', CHARGE_START_LEVEL, accepted'[2]))
       /\ NonCustomLeavesLimits]_vars

\* setChargingPolicy(CUSTOM) has written the policy code and then the cached
\* non-default pair (60,55) to both attributes
C5_Witness ==
    /\ last.op = "setChargingPolicy"
    /\ last.args = <<"CUSTOM">>
    /\ last.res = "Ok"
    /\ limits = <<60, 55>>
    /\ Len(last.log) = 3
    /\ last.log[1].loc = P_CHARGING_POLICY
    /\ Holds(fs, CHARGE_STOP_LEVEL, 60)
    /\ Holds(fs, CHARGE_START_LEVEL, 55)

\* C6: a setChargeLimit with a valid pair always updates the cached Limits,
\* and writes a backing attribute only if the policy attribute reads 2; when
\* it reads anything else, is absent or unreadable, the store is unchanged.
C6_CacheAlwaysStoreIfCustom ==
    [][(last'.op = "setChargeLimit" /\ ValidPair(last'.args))
       => (/\ limits' = last'.args
           /\ (read_int_or(fs, CHARGING_POLICY, 1) # 2
                 => (fs' = fs /\ last'.log = <<>>)))]_vars

\* C7: getChargeLimit succeeds, writes nothing and changes nothing; each
\* component is the attribute's integer when the attribute is present and
\* its trimmed text is an integer, and otherwise the component of the pair of
\* the last setChargeLimit that passed validation, (80,70) initially.
C7_GetReadsBackingOrCache ==
    [][last'.op = "getChargeLimit" =>
        LET Component(p, cached) ==
                IF fs[p].present /\ parse_i32(trim(fs[p].text)).ok
                THEN parse_i32(trim(fs[p].text)).v
                ELSE cached
        IN /\ last'.res = "Ok"
           /\ last'.log = <<>>
           /\ fs' = fs
           /\ limits' = limits
           /\ last'.ret = << Component(P_CHARGE_STOP_LEVEL, accepted[1]),
                             Component(P_CHARGE_START_LEVEL, accepted[2]) >>]_vars

\* getChargeLimit has returned the cached stop for an unreadable stop
\* attribute next to the stored start
C7_Witness ==
    /\ last.op = "getChargeLimit"
    /\ limits = <<60, 55>>
    /\ ~Readable(fs, CHARGE_STOP_LEVEL)
    /\ Holds(fs, CHARGE_START_LEVEL, 70)
    /\ last.ret = <<60, 70>>

\* ------------------------------------------------------------------------
\* Properties of the defender, dock-defend and calibration operations
\* ------------------------------------------------------------------------
\* the store f after the successful writes of log
AfterWrites(f, log) ==
    [p \in Locations |->
        IF \E i \in 1..Len(log) : log[i].loc = p /\ log[i].ok
        THEN File(log[CHOOSE i \in 1..Len(log) : log[i].loc = p /\ log[i].ok].text)
        ELSE f[p]]

\* the writes clearDefenders(ALL) is to issue on the store f, in order:
\* temp, trickle, dwell and, when dock-defend is active, dock
ClearAllPlan(f) ==
    << [loc |-> resolve(f, BD_CLEAR), text |-> <<"B", "2">>],
       [loc |-> resolve(f, BD_TRICKLE_RESET_SEC), text |-> <<"0">>],
       [loc |-> resolve(f, BD_TRICKLE_RATE), text |-> <<"0">>] >>
    \o (IF Holds(f, DD_STATE, 1) /\ exists(f, DD_SETTINGS)
        THEN << [loc |-> P_DD_SETTINGS, text |-> <<"0", "2">>] >>
        ELSE << >>)

\* C8: clearDefenders(ALL) issues its writes in the order temp, trickle,
\* dwell, dock; it stops at the first sub-routine that fails (a rejected
\* write or a missing attribute) and returns BackendFailure, issuing no
\* later write and keeping the earlier ones; it returns success only when
\* all have run; the settings attribute is written only if the dock-defend
\* state reads 1 and the settings attribute exists.
C8_ClearAllInOrder ==
    [][last'.op = "clearBatteryDefenders" =>
        LET log == last'.log
            n == Len(log)
            plan == ClearAllPlan(fs)
        IN /\ (\E i \in 1..n : log[i].loc = P_DD_SETTINGS)
                => (Holds(fs, DD_STATE, 1) /\ exists(fs, DD_SETTINGS))
           /\ last'.args = <<"ALL">> =>
                /\ n <= Len(plan)
                /\ \A i \in 1..n : /\ log[i].loc = plan[i].loc
                                    /\ log[i].text = plan[i].text
                                    /\ i < n => log[i].ok
                /\ n < Len(plan) => \/ n > 0 /\ ~log[n].ok
                                    \/ plan[n + 1].loc = NoLoc
                /\ last'.res = IF n = Len(plan) /\ \A i \in 1..n : log[i].ok
                               THEN "Ok" ELSE "BackendFailure"
                /\ fs' = AfterWrites(fs, log)]_vars

\* clearDefenders(ALL) has cleared temp (through the alternate location) and
\* trickle, failed on dwell and left dock-defend, which is active, untouched
C8_Witness ==
    /\ last.op = "clearBatteryDefenders"
    /\ last.args = <<"ALL">>
    /\ last.res = "BackendFailure"
    /\ Len(last.log) = 3
    /\ last.log[1].loc = P_BD_CLEAR_ALT
    /\ last.log[2].ok
    /\ ~last.log[3].ok
    /\ fs[P_BD_CLEAR_ALT].text = <<"B", "2">>
    /\ fs[P_BD_TRICKLE_RESET_SEC].text = <<"0">>
    /\ Holds(fs, DD_STATE, 1)
    /\ fs[P_DD_SETTINGS] = File(<<"1", "\n">>)

\* the sentinel setEnable writes
Sentinel(enabled) == IF enabled THEN <<"B", "2">> ELSE <<"1", "M">>

\* C9 (as stated): setEnable fails with UnsupportedOperation if and only if
\* the feature is not DOCK_DEFEND; for DOCK_DEFEND it writes the sentinel to
\* the settings attribute only if that attribute is present.
C9_UnsupportedIffNotDock ==
    [][last'.op = "setEnable" =>
        LET feature == last'.args[1]
            enabled == last'.args[2]
        IN /\ (last'.res = "UnsupportedOperation") <=> (feature # "DOCK_DEFEND")
           /\ last'.log # <<>> =>
                /\ feature = "DOCK_DEFEND"
                /\ exists(fs, DD_SETTINGS)
                /\ Len(last'.log) = 1
                /\ last'.log[1].loc = P_DD_SETTINGS
                /\ last'.log[1].text = Sentinel(enabled)]_vars

\* C9 (amended): setEnable fails with UnsupportedOperation if and only if
\* the feature is not DOCK_DEFEND or the settings attribute is absent; for
\* DOCK_DEFEND with the attribute present it issues exactly the write of the
\* sentinel and returns success or BackendFailure as that write does;
\* otherwise it writes nothing.
C9_UnsupportedIffNotDockOrAbsent ==
    [][last'.op = "setEnable" =>
        LET feature == last'.args[1]
            enabled == last'.args[2]
            controllable == feature = "DOCK_DEFEND" /\ exists(fs, DD_SETTINGS)
        IN /\ (last'.res = "UnsupportedOperation") <=> ~controllable
           /\ controllable =>
                /\ Len(last'.log) = 1
                /\ last'.log[1].loc = P_DD_SETTINGS
                /\ last'.log[1].text = Sentinel(enabled)
                /\ last'.res = IF last'.log[1].ok THEN "Ok" ELSE "BackendFailure"
                /\ fs' = AfterWrites(fs, last'.log)
           /\ ~controllable => (last'.log = <<>> /\ fs' = fs)]_vars

\* setEnable(DOCK_DEFEND, false) has written the disable sentinel
C9_Witness ==
    /\ last.op = "setEnable"
    /\ last.args = <<"DOCK_DEFEND", FALSE>>
    /\ last.res = "Ok"
    /\ last.log = << [loc |-> P_DD_SETTINGS, text |-> <<"1", "M">>, ok |-> TRUE] >>
    /\ fs[P_DD_SETTINGS] = File(<<"1", "M">>)

\* the text scheduleCalibration is to write for a recognized mode
CalibrationText(mode) ==
    CASE mode = "DISABLED" -> <<"0">>
      [] mode = "ENABLED" -> <<"1">>
      [] mode = "FORCED" -> <<"2">>

RecognizedModes == {"DISABLED", "ENABLED", "FORCED"}

\* C10 (as stated): scheduleCalibration fails with InvalidArgument for every
\* mode outside {DISABLED, ENABLED, FORCED}, whether or not the attribute is
\* present; for a recognized mode it writes nothing and succeeds when the
\* attribute is absent, and otherwise writes the code 0, 1 or 2.
C10_InvalidModeAlwaysRejected ==
    [][last'.op = "scheduleCalibration" =>
        LET mode == last'.args[1] IN
        /\ mode \notin RecognizedModes => last'.res = "InvalidArgument"
        /\ (mode \in RecognizedModes /\ ~exists(fs, HEALTH_SET_CAL_MODE))
              => (last'.log = <<>> /\ last'.res = "Ok")
        /\ (mode \in RecognizedModes /\ exists(fs, HEALTH_SET_CAL_MODE))
              => /\ Len(last'.log) = 1
                 /\ last'.log[1].loc = P_HEALTH_SET_CAL_MODE
                 /\ last'.log[1].text = CalibrationText(mode)]_vars

\* C10 (amended): scheduleCalibration fails with InvalidArgument exactly for
\* a mode outside {DISABLED, ENABLED, FORCED} while the attribute is present,
\* and writes nothing then; when the attribute is absent it writes nothing
\* and succeeds for every mode, recognized or not; for a recognized mode and
\* a present attribute it issues exactly the write of the code 0, 1 or 2 and
\* returns success or BackendFailure as that write does.
C10_InvalidModeRejectedIfPresent ==
    [][last'.op = "scheduleCalibration" =>
        LET mode == last'.args[1]
            present == exists(fs, HEALTH_SET_CAL_MODE)
        IN /\ (last'.res = "InvalidArgument") <=> (mode \notin RecognizedModes /\ present)
           /\ ~present => (last'.log = <<>> /\ last'.res = "Ok" /\ fs' = fs)
           /\ (mode \notin RecognizedModes) => (last'.log = <<>> /\ fs' = fs)
           /\ (mode \in RecognizedModes /\ present)
                 => /\ Len(last'.log) = 1
                    /\ last'.log[1].loc = P_HEALTH_SET_CAL_MODE
                    /\ last'.log[1].text = CalibrationText(mode)
                    /\ last'.res = IF last'.log[1].ok THEN "Ok" ELSE "BackendFailure"
                    /\ fs' = AfterWrites(fs, last'.log)]_vars

\* scheduleCalibration(FORCED) has written the code 2
C10_Witness ==
    /\ last.op = "scheduleCalibration"
    /\ last.args = <<"FORCED">>
    /\ last.res = "Ok"
    /\ last.log = << [loc |-> P_HEALTH_SET_CAL_MODE, text |-> <<"2">>, ok |-> TRUE] >>
    /\ fs[P_HEALTH_SET_CAL_MODE] = File(<<"2">>)

\* ------------------------------------------------------------------------
\* Properties of the generic property operations
\* ------------------------------------------------------------------------
PropertyOps == {"getStringProperty", "setStringProperty"}

\* C11: getStringProperty and setStringProperty fail with InvalidArgument
\* exactly when the property is 51 or more, and for every property below 51
\* they return success, whatever the feature and whatever the store does
\* (a failing read or write of an existing location, a location removed
\* between the existence check and the access).
C11_OnlyRangeFails ==
    [][last'.op \in PropertyOps =>
          /\ (last'.res = "InvalidArgument" <=> last'.args[2] >= 51)
          /\ (last'.args[2] < 51 => last'.res = "Ok")]_vars

\* C12: for a property below 51, when the pair has no table entry or its
\* location does not exist, setStringProperty returns success and leaves the
\* whole store unchanged and getStringProperty returns success with the empty
\* text; when the location exists, setStringProperty issues one write, of the
\* given value, to that location, no other location changes, and on
\* success the location holds the value.
C12_SoftSuccessAndFrame ==
    [][last'.op \in PropertyOps /\ last'.args[2] < 51 =>
          LET path == get_property_sysfs(last'.args[1], last'.args[2]) IN
          IF path = NoLoc \/ ~PathExists(fs, path)
          THEN /\ last'.res = "Ok"
               /\ last'.ret = <<>>
               /\ last'.log = <<>>
               /\ fs' = fs
          ELSE last'.op = "setStringProperty" =>
               /\ Len(last'.log) = 1
               /\ last'.log[1].loc = path
               /\ last'.log[1].text = last'.args[3]
               /\ \A p \in Locations \ {path} : fs'[p] = fs[p]
               /\ (last'.res = "Ok" => fs'[path] = File(last'.args[3]))]_vars

\* a value written through the mapped pair (TRICKLE_DEFEND, 50), the other
\* attributes of the table keeping their text
C12_Witness ==
    /\ last.op = "setStringProperty"
    /\ last.args = <<"TRICKLE_DEFEND", 50, <<"o", "n", "\n">>, "ok">>
    /\ last.res = "Ok"
    /\ fs[P_BD_TRICKLE_CNT_THR] = File(<<"o", "n", "\n">>)
    /\ fs[P_BD_TRICKLE_RESET_SEC] = File(<<"0", "\n">>)

\* ------------------------------------------------------------------------
\* Properties of getDockDefendStatus
\* ------------------------------------------------------------------------
\* the status the two readings determine
DockDefendStatusOf(state, settings) ==
    IF state = -1 THEN "DISABLED"
    ELSE IF settings = -1 THEN "ERROR"
    ELSE IF state = 1 /\ settings = 1 THEN "ACTIVE"
    ELSE "INACTIVE"

\* the integer an attribute reads as, -1 when it is absent or not an integer
ReadingOf(f, ref) ==
    IF ~exists(f, ref) THEN -1
    ELSE LET r == parse_i32(trim(f[resolve(f, ref)].text)) IN
         IF r.ok THEN r.v ELSE -1

\* C13: getDockDefendStatus never fails, changes nothing and returns
\* DISABLED when state reads -1, else ERROR when settings reads -1, else
\* ACTIVE when both read 1, else INACTIVE, a reading being -1 when the
\* attribute is absent or not an integer.
C13_DockDefendStatusTotal ==
    [][last'.op = "getDockDefendStatus" =>
          /\ last'.res = "Ok"
          /\ fs' = fs
          /\ last'.ret = DockDefendStatusOf(ReadingOf(fs, DD_STATE),
                                            ReadingOf(fs, DD_SETTINGS))]_vars

\* dock-defend triggered while the settings attribute holds the enable
\* sentinel, which is not an integer: ERROR
C13_Witness ==
    /\ last.op = "getDockDefendStatus"
    /\ fs[P_DD_STATE] = File(<<"1", "\n">>)
    /\ fs[P_DD_SETTINGS] = File(<<"B", "2">>)
    /\ last.ret = "ERROR"

\* ------------------------------------------------------------------------
\* Properties of getHealthStats
\* ------------------------------------------------------------------------
\* the line is "algoId:..." with the integer algoId equal to code
AlgoIdMatches(line, code) ==
    /\ split_once(line).found
    /\ parse_i32(trim(split_once(line).a)).ok
    /\ parse_i32(trim(split_once(line).a)).v = code

\* the lines of the health-stats attribute, none when it cannot be read
StatsLines(f) ==
    IF SysfsPath_read_string(f, HEALTH_INDEX_STATS).err # "none" THEN <<>>
    ELSE lines(SysfsPath_read_string(f, HEALTH_INDEX_STATS).s)

\* the index of the first line whose algoId is code, 0 when there is none
FirstMatching(ls, code) ==
    IF \E i \in 1..Len(ls) : AlgoIdMatches(ls[i], code)
    THEN CHOOSE i \in 1..Len(ls) :
             /\ AlgoIdMatches(ls[i], code)
             /\ \A j \in 1..(i - 1) : ~AlgoIdMatches(ls[j], code)
    ELSE 0

\* the integer fields of a line
FieldsOf(line) == field_values(split_once(line).rest)

\* C14: getHealthStats selects the first line whose algoId equals the code
\* of the requested algorithm, whatever lines precede it (lines without ':'
\* or with a non-integer algoId included), and when that line has at least
\* 10 numeric fields it returns the record of its first 10 values.
C14_FirstMatchingLineSelected ==
    [][last'.op = "getHealthStats" =>
          LET code == AlgoCode(last'.args[1])
              k == FirstMatching(StatsLines(fs), code)
          IN (k # 0 /\ Len(FieldsOf(StatsLines(fs)[k])) >= 10)
                 => last'.ret = HealthStats(code, FieldsOf(StatsLines(fs)[k]))]_vars

\* C15: getHealthStats returns the all-default record whenever no line's
\* algoId matches, and whenever the first matching line has fewer than 10
\* numeric fields, even if a later line with the same algoId has 10 or more.
C15_ShortFirstMatchGivesDefault ==
    [][last'.op = "getHealthStats" =>
          LET code == AlgoCode(last'.args[1])
              k == FirstMatching(StatsLines(fs), code)
          IN (k = 0 \/ Len(FieldsOf(StatsLines(fs)[k])) < 10)
                 => last'.ret = HealthStats_default]_vars

\* ------------------------------------------------------------------------
\* Properties of the resolution of a reference
\* ------------------------------------------------------------------------
\* the primary location when it exists, else the declared alternate when it
\* exists, else none
Resolved(f, ref) ==
    IF f[ref.primary].present THEN ref.primary
    ELSE IF ref.alternate # NoLoc /\ f[ref.alternate].present THEN ref.alternate
    ELSE NoLoc

\* the integer the text of location p reads as, the default when it is none
IntAt(f, p, default) ==
    IF parse_i32(trim(f[p].text)).ok THEN parse_i32(trim(f[p].text)).v ELSE default

\* C16: a reference resolves to its primary location when that exists (also
\* when the alternate exists too), else to its declared alternate when that
\* exists, else to nothing; a read or write through the reference accesses
\* exactly the resolved location; when nothing resolves, a write fails with
\* NotFound without touching the store and a defaulting read returns its
\* default.
C16_ResolutionFallback ==
    [][/\ resolve(fs, BD_CLEAR) = Resolved(fs, BD_CLEAR)
       /\ resolve(fs, CHARGING_STATUS) = Resolved(fs, CHARGING_STATUS)
       /\ last'.op = "getChargingStatus" =>
             /\ fs' = fs
             /\ last'.ret = IF Resolved(fs, CHARGING_STATUS) = NoLoc THEN -1
                            ELSE IntAt(fs, Resolved(fs, CHARGING_STATUS), -1)
       /\ last'.op = "clearBatteryDefenders" =>
             IF Resolved(fs, BD_CLEAR) = NoLoc
             THEN /\ SysfsPath_write_string(Ctx(fs), BD_CLEAR, <<"B", "2">>, 0).err
                         = "NotFound"
                  /\ last'.res = "BackendFailure"
                  /\ last'.log = <<>>
                  /\ fs' = fs
             ELSE /\ Len(last'.log) = 1
                  /\ last'.log[1].loc = Resolved(fs, BD_CLEAR)
                  /\ \A p \in Locations \ {Resolved(fs, BD_CLEAR)} : fs'[p] = fs[p]
                  /\ last'.res = "Ok" =>
                         fs'[Resolved(fs, BD_CLEAR)] = File(<<"B", "2">>)]_vars

\* both locations of the status exist with different texts and the read
\* returns the primary's, and the clear sentinel went to the alternate of
\* BD_CLEAR while its primary was absent
C16_Witness ==
    /\ last.op = "getChargingStatus"
    /\ fs[P_CHARGING_STATUS] = File(<<"2", "\n">>)
    /\ fs[P_CHARGING_STATUS_ALT] = File(T_garbage)
    /\ last.ret = 2
    /\ ~fs[P_BD_CLEAR].present
    /\ fs[P_BD_CLEAR_ALT] = File(<<"B", "2">>)

\* ------------------------------------------------------------------------
\* Properties of the validation and of the cached limits
\* ------------------------------------------------------------------------
\* C17: over all 32-bit stop and start, setChargeLimit is rejected with
\* InvalidArgument exactly when stop is outside [50,100] or the mathematical
\* difference stop - start is below 5; a start so negative that the 32-bit
\* subtraction overflows is neither rejected nor makes the call panic.
C17_RejectedIffInvalid ==
    [][last'.op = "setChargeLimit" =>
          /\ (last'.res = "InvalidArgument" <=> ~ValidPair(last'.args))
          /\ last'.res # "Panic"]_vars

\* a pair the cache may hold: valid, and the default pair or the arguments of
\* a single validated setChargeLimit call
CachePair(a) ==
    /\ ValidPair(a)
    /\ a = <<DEFAULT_STOP, DEFAULT_START>> \/ a \in validated

\* thread t is between the two assignments of setChargeLimit or about to
\* make the first
Storing(t) == calls[t].pc \in {"store_stop", "store_start"}

\* thread t runs apply_levels on the pair it read from the cache
Reapplying(t) ==
    /\ calls[t].op = "setChargingPolicy"
    /\ calls[t].pc \in {"read_current_start", "read_current_stop", "prep_start",
                        "write_stop", "write_start"}

\* C18: under any interleaving of concurrent calls the cached limits, as
\* long as no setChargeLimit holds the mutex to replace them, satisfy
\* 50 <= stop <= 100 and stop - start >= 5 and are the default pair (80,70)
\* or exactly the arguments of one setChargeLimit call, never a mix of two
\* calls; so is every pair read from the cache; and no step of an operation
\* other than setChargeLimit changes them.
C18_CachedLimitsInvariant ==
    /\ [](/\ (mutex = 0 \/ calls[mutex].op # "setChargeLimit") => CachePair(limits)
          /\ \A t \in Threads : Reapplying(t) => CachePair(<<calls[t].stop, calls[t].start>>))
    /\ [][limits' # limits =>
             \E t \in Threads : /\ calls[t].op = "setChargeLimit"
                                /\ Storing(t)
                                /\ calls'[t].pc # calls[t].pc]_vars

\* thread 2 has stored the stop of (60,55) over the cached (80,75) and not
\* yet its start, while thread 1 waits for the mutex with another pair
C18_Witness ==
    /\ mutex = 2
    /\ calls[2].pc = "store_start"
    /\ calls[2].args = <<60, 55>>
    /\ limits = <<60, 75>>
    /\ calls[1].pc = "lock"
    /\ calls[1].op = "setChargeLimit"

\* ------------------------------------------------------------------------
\* Properties of the coupled writes
\* ------------------------------------------------------------------------
\* every write of the log is acceptable on the store it meets, the store
\* being f before the first and changed by each write that is not rejected
RECURSIVE AllAcceptable(_, _)
AllAcceptable(f, log) ==
    IF log = <<>> THEN TRUE
    ELSE /\ Acceptable(f, Head(log))
         /\ AllAcceptable(IF Head(log).ok
                          THEN [f EXCEPT ![Head(log).loc] = File(Head(log).text)]
                          ELSE f,
                          Tail(log))

\* C19: with a single caller, the stop and start attributes present and
\* readable and the stored start below the stored stop, every write that
\* apply_levels issues for a valid target is acceptable to the driver when
\* it is issued (a stop above the start stored then, a start below the stop
\* stored then, never the stored value itself), and a call that returns
\* success leaves the store holding exactly the target pair.
C19_WritesAcceptable ==
    [][(/\ last'.applied # NoPair
        /\ ValidPair(last'.applied)
        /\ Readable(fs, CHARGE_STOP_LEVEL)
        /\ Readable(fs, CHARGE_START_LEVEL)
        /\ Stored(fs, CHARGE_START_LEVEL) < Stored(fs, CHARGE_STOP_LEVEL))
       => /\ AllAcceptable(fs, LimitWrites(last'.log))
          /\ last'.res = "Ok" =>
                /\ Holds(fs', CHARGE_STOP_LEVEL, last'.applied[1])
                /\ Holds(fs', CHARGE_START_LEVEL, last'.applied[2])]_vars

\* from the stored (100,70) the target (60,55) has been reached start first
C19_Witness ==
    /\ prev = <<"setChargeLimit", <<100, 70>>>>
    /\ last.op = "setChargeLimit"
    /\ last.applied = <<60, 55>>
    /\ last.res = "Ok"
    /\ Len(last.log) = 2
    /\ last.log[1].loc = P_CHARGE_START_LEVEL
    /\ last.log[2].loc = P_CHARGE_STOP_LEVEL
    /\ Holds(fs, CHARGE_STOP_LEVEL, 60)
    /\ Holds(fs, CHARGE_START_LEVEL, 55)

\* C20: in the write sequence of setChargeLimit and of setChargingPolicy, a
\* write that fails makes the call return BackendFailure at once: no later
\* write is issued and every attribute written before it keeps its new
\* value, the failed one its old value; when setChargingPolicy(CUSTOM) fails
\* while re-applying the limits, the policy code it wrote stays in place.
C20_FailureAborts ==
    [][last'.op \in {"setChargeLimit", "setChargingPolicy"} =>
          /\ \A i \in 1..Len(last'.log) :
                ~last'.log[i].ok => i = Len(last'.log) /\ last'.res = "BackendFailure"
          /\ fs' = AfterWrites(fs, last'.log)
          /\ (/\ last'.op = "setChargingPolicy"
              /\ Len(last'.log) > 1
              /\ last'.res = "BackendFailure")
             => /\ last'.log[1] = [loc |-> P_CHARGING_POLICY, text |-> <<"2">>, ok |-> TRUE]
                /\ fs'[P_CHARGING_POLICY] = File(<<"2">>)]_vars

\* setChargingPolicy(CUSTOM) has written the policy code and the start of
\* the cached (60,55), and the write of the stop has failed
C20_Witness ==
    /\ last.op = "setChargingPolicy"
    /\ last.args = <<"CUSTOM">>
    /\ last.res = "BackendFailure"
    /\ Len(last.log) = 3
    /\ last.log[2] = [loc |-> P_CHARGE_START_LEVEL, text |-> <<"5", "5">>, ok |-> TRUE]
    /\ last.log[3] = [loc |-> P_CHARGE_STOP_LEVEL, text |-> <<"6", "0">>, ok |-> FALSE]
    /\ fs[P_CHARGING_POLICY] = File(<<"2">>)
    /\ fs[P_CHARGE_START_LEVEL] = File(<<"5", "5">>)
    /\ fs[P_CHARGE_STOP_LEVEL] = File(<<"8", "0", "\n">>)

\* ------------------------------------------------------------------------
\* Properties of the transitional write and of absent attributes
\* ------------------------------------------------------------------------
\* apply_levels takes its lower-start-first branch on the store f for the
\* pair a: the target stop is at or below the start it reads, and the target
\* start differs from it
LowersStartFirst(f, a) ==
    /\ a[1] <= read_int_or(f, CHARGE_START_LEVEL, 0)
    /\ a[2] # read_int_or(f, CHARGE_START_LEVEL, 0)

\* C21: the transitional start write of apply_levels is issued only if the
\* transitional value differs from the current start and the stop attribute
\* exists; with the stop attribute absent no transitional start write is
\* performed.
C21_TransitionalNeedsStop ==
    [][(/\ last'.applied # NoPair
        /\ LowersStartFirst(fs, last'.applied)
        /\ SelectSeq(last'.log, IsStartWrite) # <<>>)
       => /\ Min(last'.applied[2], last'.applied[1] - 1)
                 # read_int_or(fs, CHARGE_START_LEVEL, 0)
          /\ exists(fs, CHARGE_STOP_LEVEL)]_vars

\* C22: absence is not an error for apply_levels: whichever of the stop and
\* start attributes are present, it issues no write to an absent attribute
\* and fails only on a rejected write to a present one; with both absent it
\* issues no write and succeeds; an absent stop or start counts as 100 or 0,
\* so with the start absent the stop is written exactly when the target stop
\* differs from the stop read with 100 as fallback.
C22_AbsenceIsNotAnError ==
    [][last'.applied # NoPair
       => /\ \A i \in 1..Len(LimitWrites(last'.log)) :
                 PathExists(fs, LimitWrites(last'.log)[i].loc)
          /\ last'.res = "BackendFailure"
                 => \E i \in 1..Len(LimitWrites(last'.log)) :
                        /\ ~LimitWrites(last'.log)[i].ok
                        /\ PathExists(fs, LimitWrites(last'.log)[i].loc)
          /\ (~exists(fs, CHARGE_STOP_LEVEL) /\ ~exists(fs, CHARGE_START_LEVEL))
                 => LimitWrites(last'.log) = <<>> /\ last'.res = "Ok"
          /\ (exists(fs, CHARGE_STOP_LEVEL) /\ ~exists(fs, CHARGE_START_LEVEL))
                 => (LimitWrites(last'.log) # <<>>
                        <=> last'.applied[1] # read_int_or(fs, CHARGE_STOP_LEVEL, 100))]_vars

\* a call ran apply_levels with both attributes absent and returned success
\* without a write to either
C22_Witness ==
    /\ last.op = "setChargeLimit"
    /\ last.applied = <<60, 55>>
    /\ last.res = "Ok"
    /\ ~exists(fs, CHARGE_STOP_LEVEL)
    /\ ~exists(fs, CHARGE_START_LEVEL)
    /\ LimitWrites(last.log) = <<>>

\* the call record a is a setChargeLimit that failed while applying its pair
FailedApplying(a) ==
    /\ a.op = "setChargeLimit"
    /\ a.res = "BackendFailure"
    /\ a.applied # NoPair

\* C24: setChargeLimit commits the cache before it touches the store: when a
\* valid setChargeLimit(stop, start) returns BackendFailure because applying
\* the limits failed, the cached Limits equal (stop, start); a getChargeLimit
\* that follows returns the new stop or start for each attribute it cannot
\* read, and a setChargingPolicy(CUSTOM) that follows applies the new pair.
C24_CacheCommittedBeforeStore ==
    /\ [][FailedApplying(last')
          => ValidPair(last'.args) /\ limits' = last'.args]_vars
    /\ [][(FailedApplying(last) /\ last'.op = "getChargeLimit")
          => /\ ~Readable(fs, CHARGE_STOP_LEVEL) => last'.ret[1] = last.args[1]
             /\ ~Readable(fs, CHARGE_START_LEVEL) => last'.ret[2] = last.args[2]]_vars
    /\ [][(FailedApplying(last) /\ last'.op = "setChargingPolicy"
              /\ last'.applied # NoPair)
          => last'.applied = last.args]_vars

\* a setChargeLimit(60, 55) failed on its first write, leaving the store at
\* (80, 70), and the cache holds (60, 55)
C24_Witness ==
    /\ FailedApplying(last)
    /\ last.args = <<60, 55>>
    /\ limits = <<60, 55>>
    /\ Holds(fs, CHARGE_STOP_LEVEL, 80)
    /\ Holds(fs, CHARGE_START_LEVEL, 70)

\* both calls of the race have returned success: no call is in progress,
\* the two valid pairs have each been the target of a call, and the last two
\* returns are successes from inside apply_levels
BothSucceeded ==
    /\ \A t \in Threads : calls[t].pc = "idle"
    /\ Cardinality(validated) = 2
    /\ last.op = "setChargeLimit" /\ last.res = "Ok" /\ last.applied # NoPair
    /\ prev # <<>> /\ prev[2] # last.applied

\* the store reads as the pair a
StoreHolds(a) ==
    Holds(fs, CHARGE_STOP_LEVEL, a[1]) /\ Holds(fs, CHARGE_START_LEVEL, a[2])

\* C23: when two setChargeLimit calls with valid, different targets run
\* concurrently under the CUSTOM policy on a store that enforces the
\* coupled-write rules, then once both have returned success the store holds
\* the target pair of one of the two calls, and that pair is the cached one.
C23_RaceEndsConsistent ==
    BothSucceeded
        => /\ StoreHolds(last.applied) \/ StoreHolds(prev[2])
           /\ StoreHolds(limits)

TypeOK ==
    /\ \A p \in Locations : fs[p].present \in BOOLEAN
    /\ Len(limits) = 2
====
